---- MODULE Spec2Model ----
(***************************************************************************)
(* Adversarial regression testing engine: the exploration engine           *)
(* (action catalog, target adapter, novelty archive, reward model,         *)
(* epsilon-greedy policy, episode recorder, replay driver) and the demo    *)
(* target it drives (AppState and its HTTP handlers).                      *)
(*                                                                         *)
(* Conventions                                                             *)
(*  - a Python dict is a function; dict.get(k, d) is Get(d, k, default);   *)
(*    the empty dict is EmptyDict; None is the string "None".              *)
(*  - rewards and weights are in tenths (0.3 is 3, 2.0 is 20).             *)
(*  - latencies are in milliseconds, epsilon and rng.random() in           *)
(*    hundredths.                                                          *)
(*  - an HTTP exchange either delivers the handler's response or fails at  *)
(*    transport level (connection refused, timeout), in which case         *)
(*    requests raises.  The handlers' effect on AppState is modelled by    *)
(*    the bodies of the AppState methods; the lock discipline of those     *)
(*    methods is modelled step by step in SpecLock.                        *)
(***************************************************************************)
EXTENDS Integers, Sequences, FiniteSets, TLC

\* ------------------------------------------------------------------------
\* Bounds of the model
\* ------------------------------------------------------------------------
MaxSteps == 2

\* ------------------------------------------------------------------------
\* Python helpers
\* ------------------------------------------------------------------------
None == "None"

EmptyDict == [k \in {} |-> None]

Get(d, k, default) == IF k \in DOMAIN d THEN d[k] ELSE default

\* d.get(k) is None
IsNone(d, k) == k \notin DOMAIN d

Max(a, b) == IF a > b THEN a ELSE b

\* seq[-n:]
LastN(seq, n) == SubSeq(seq, Max(1, Len(seq) - n + 1), Len(seq))

Range(seq) == {seq[i] : i \in DOMAIN seq}

\* Every string the program sorts, in Python's string order.
LexOrder ==
    << "alerts", "alerts_present", "doodads", "gadgets", "http_4xx", "http_5xx",
       "invariants", "inventory", "inventory_negative",
       "inventory_negative:doodads", "inventory_negative:gadgets",
       "inventory_negative:widgets", "mode", "orders_in_maintenance",
       "orders_total", "oversold:doodads", "oversold:gadgets", "oversold:widgets",
       "slow_mode", "slow_response", "state_version", "widgets" >>

StrRank(s) == CHOOSE i \in DOMAIN LexOrder : LexOrder[i] = s

StrLeq(a, b) == StrRank(a) <= StrRank(b)

RECURSIVE InsertSorted(_, _)
InsertSorted(sorted, s) ==
    IF sorted = <<>> THEN <<s>>
    ELSE IF StrLeq(s, Head(sorted)) THEN <<s>> \o sorted
    ELSE <<Head(sorted)>> \o InsertSorted(Tail(sorted), s)

\* sorted(list of str)
RECURSIVE Sorted(_)
Sorted(seq) ==
    IF seq = <<>> THEN <<>>
    ELSE InsertSorted(Sorted(SubSeq(seq, 1, Len(seq) - 1)), seq[Len(seq)])

\* "|".join(list of str)
RECURSIVE JoinBar(_)
JoinBar(seq) ==
    IF seq = <<>> THEN ""
    ELSE IF Len(seq) = 1 THEN seq[1]
    ELSE seq[1] \o "|" \o JoinBar(Tail(seq))

\* ------------------------------------------------------------------------
\* demo_app.py: AppState
\* ------------------------------------------------------------------------
\* inventory_items, which is also the insertion order of AppState.inventory
Items == << "widgets", "gadgets", "doodads" >>

ItemSet == Range(Items)

ModeSet == {"normal", "maintenance", "slow"}

EventLogCap == 200

RecentEvents == 10

RecentOrders == 5

\* _record_event: append, drop the oldest beyond the cap
RecordEvent(st, name, detail, now) ==
    LET event == [name |-> name, detail |-> detail,
                  state_version |-> st.state_version, timestamp |-> now]
        appended == Append(st.events, event)
    IN [st EXCEPT !.events = IF Len(appended) > EventLogCap
                             THEN Tail(appended) ELSE appended]

\* _bump_version
BumpVersion(st) == [st EXCEPT !.state_version = @ + 1]

\* the assignments of reset(), before its call of summary()
ResetBody(now) ==
    RecordEvent([inventory |-> [i \in ItemSet |->
                                  CASE i = "widgets" -> 6
                                    [] i = "gadgets" -> 3
                                    [] i = "doodads" -> 2],
                 mode |-> "normal",
                 orders |-> <<>>,
                 state_version |-> 0,
                 events |-> <<>>,
                 outstanding_alerts |-> <<>>],
                "reset", [reason |-> "api"], now)

NegativeFlag(item) == "inventory_negative:" \o item

\* _invariant_flags
RECURSIVE NegativeFlags(_, _)
NegativeFlags(inventory, k) ==
    IF k > Len(Items) THEN <<>>
    ELSE (IF inventory[Items[k]] < 0 THEN <<NegativeFlag(Items[k])>> ELSE <<>>)
         \o NegativeFlags(inventory, k + 1)

InvariantFlags(st) ==
    NegativeFlags(st.inventory, 1)
    \o (IF st.mode = "maintenance" /\ st.orders # <<>>
        THEN <<"orders_in_maintenance">> ELSE <<>>)
    \o (IF st.mode = "slow" THEN <<"slow_mode">> ELSE <<>>)

\* the dict summary() returns
Summary(st) ==
    [inventory |-> st.inventory,
     mode |-> st.mode,
     orders |-> LastN(st.orders, RecentOrders),
     orders_total |-> Len(st.orders),
     state_version |-> st.state_version,
     alerts |-> st.outstanding_alerts,
     invariants |-> InvariantFlags(st),
     recent_events |-> LastN(st.events, RecentEvents)]

\* The result of an AppState method body: the state it leaves and the
\* exception it raises ("none" when it goes on to return self.summary()).
Outcome(st, raised) == [st |-> st, raised |-> raised]

\* add_inventory
AddInventoryBody(st, item, quantity, now) ==
    Outcome(RecordEvent(BumpVersion([st EXCEPT !.inventory[item] = @ + quantity]),
                        "restock", [item |-> item, quantity |-> quantity], now),
            "none")

\* a toggle_mode that leaves state_version as it is
ToggleModeBodyKeepsVersion(st, mode, now) ==
    IF mode \notin ModeSet THEN Outcome(st, "ValueError")
    ELSE Outcome(RecordEvent([st EXCEPT !.mode = mode],
                             "mode_change", [mode |-> mode], now),
                 "none")

\* toggle_mode
ToggleModeBody(st, mode, now) ==
    IF mode \notin ModeSet THEN Outcome(st, "ValueError")
    ELSE Outcome(RecordEvent(BumpVersion([st EXCEPT !.mode = mode]),
                             "mode_change", [mode |-> mode], now),
                 "none")

OversoldAlert(item) == "oversold:" \o item

\* purchase, after the availability checks
PurchaseAccept(st, item, quantity, expedite, status, now) ==
    LET order == [item |-> item, quantity |-> quantity, expedite |-> expedite,
                  status |-> status, order_id |-> Len(st.orders) + 1]
        debited == [st EXCEPT !.inventory[item] = @ - quantity]
        ordered == BumpVersion([debited EXCEPT !.orders = Append(@, order)])
        alerted == IF ordered.inventory[item] < 0
                   THEN [ordered EXCEPT !.outstanding_alerts =
                                            Append(@, OversoldAlert(item))]
                   ELSE ordered
    IN RecordEvent(alerted, "purchase", order, now)

\* a purchase that checks the stock of expedited orders too
PurchaseBodyChecksStock(st, item, quantity, expedite, now) ==
    LET available == st.inventory[item]
    IN IF quantity <= 0 THEN Outcome(st, "ValueError")
       ELSE IF st.mode = "maintenance"
       THEN Outcome(RecordEvent(st, "purchase_rejected",
                                [item |-> item, reason |-> "maintenance"], now),
                    "RuntimeError")
       ELSE IF available < quantity
       THEN Outcome(RecordEvent(st, "purchase_conflict",
                                [item |-> item, requested |-> quantity,
                                 available |-> available], now),
                    "RuntimeError")
       ELSE Outcome(PurchaseAccept(st, item, quantity, expedite,
                                   IF expedite THEN "accepted_expedited_without_validation"
                                   ELSE "accepted", now),
                    "none")

\* a purchase that debits the stock before it checks it
PurchaseBodyDebitsFirst(st, item, quantity, expedite, now) ==
    LET available == st.inventory[item]
        debited == [st EXCEPT !.inventory[item] = available - quantity]
    IN IF quantity <= 0 THEN Outcome(st, "ValueError")
       ELSE IF st.mode = "maintenance"
       THEN Outcome(RecordEvent(st, "purchase_rejected",
                                [item |-> item, reason |-> "maintenance"], now),
                    "RuntimeError")
       ELSE IF expedite
       THEN Outcome(PurchaseAccept(st, item, quantity, expedite,
                                   "accepted_expedited_without_validation", now),
                    "none")
       ELSE IF available < quantity
       THEN Outcome(RecordEvent(debited, "purchase_conflict",
                                [item |-> item, requested |-> quantity,
                                 available |-> available], now),
                    "RuntimeError")
       ELSE Outcome(PurchaseAccept(st, item, quantity, expedite, "accepted", now),
                    "none")

\* purchase
PurchaseBody(st, item, quantity, expedite, now) ==
    LET available == st.inventory[item]
    IN IF quantity <= 0 THEN Outcome(st, "ValueError")
       ELSE IF st.mode = "maintenance"
       THEN Outcome(RecordEvent(st, "purchase_rejected",
                                [item |-> item, reason |-> "maintenance"], now),
                    "RuntimeError")
       ELSE IF expedite
       THEN Outcome(PurchaseAccept(st, item, quantity, expedite,
                                   "accepted_expedited_without_validation", now),
                    "none")
       ELSE IF available < quantity
       THEN Outcome(RecordEvent(st, "purchase_conflict",
                                [item |-> item, requested |-> quantity,
                                 available |-> available], now),
                    "RuntimeError")
       ELSE Outcome(PurchaseAccept(st, item, quantity, expedite, "accepted", now),
                    "none")

\* ------------------------------------------------------------------------
\* demo_app.py: the HTTP handlers
\* ------------------------------------------------------------------------
\* What a handler answers: the AppState it leaves, the status and the body.
Answer(st, status, body) == [st |-> st, status_code |-> status, body |-> body]

\* POST /reset with a reset() that forgets to restore the inventory
HandleResetKeepsInventory(st, now) ==
    LET fresh == [ResetBody(now) EXCEPT !.inventory = st.inventory]
    IN Answer(fresh, 200, [state |-> Summary(fresh)])

\* POST /reset
HandleReset(st, now) ==
    LET fresh == ResetBody(now)
    IN Answer(fresh, 200, [state |-> Summary(fresh)])

\* a POST /inventory that refuses negative quantities
HandleInventoryPositiveOnly(st, payload, now) ==
    LET item == Get(payload, "item", None)
        quantity == Get(payload, "quantity", None)
    IN IF IsNone(payload, "item") \/ IsNone(payload, "quantity")
       THEN Answer(st, 400, [error |-> "item and quantity required"])
       ELSE IF quantity <= 0
       THEN Answer(st, 422, [error |-> "quantity must be positive"])
       ELSE LET out == AddInventoryBody(st, item, quantity, now)
            IN Answer(out.st, 201, [state |-> Summary(out.st)])

\* POST /inventory
HandleInventory(st, payload, now) ==
    LET item == Get(payload, "item", None)
        quantity == Get(payload, "quantity", None)
    IN IF IsNone(payload, "item") \/ IsNone(payload, "quantity")
       THEN Answer(st, 400, [error |-> "item and quantity required"])
       ELSE IF quantity = 0
       THEN Answer(st, 422, [error |-> "quantity must not be zero"])
       ELSE LET out == AddInventoryBody(st, item, quantity, now)
            IN Answer(out.st, 201, [state |-> Summary(out.st)])

\* POST /purchase
HandlePurchase(st, payload, now) ==
    LET item == Get(payload, "item", None)
        quantity == Get(payload, "quantity", None)
        expedite == Get(payload, "expedite", FALSE)
    IN IF IsNone(payload, "item") \/ IsNone(payload, "quantity")
       THEN Answer(st, 400, [error |-> "item and quantity required"])
       ELSE LET out == PurchaseBody(st, item, quantity, expedite, now)
            IN CASE out.raised = "ValueError" ->
                      Answer(out.st, 422, [error |-> "quantity must be positive"])
                 [] out.raised = "RuntimeError" ->
                      Answer(out.st, 409,
                             [error |-> IF st.mode = "maintenance"
                                        THEN "store in maintenance mode"
                                        ELSE "not enough inventory",
                              state |-> Summary(out.st)])
                 [] OTHER -> Answer(out.st, 201, [state |-> Summary(out.st)])

\* POST /mode
HandleMode(st, payload, now) ==
    LET mode == Get(payload, "mode", None)
    IN IF IsNone(payload, "mode")
       THEN Answer(st, 400, [error |-> "mode required"])
       ELSE LET out == ToggleModeBody(st, mode, now)
            IN IF out.raised = "ValueError"
               THEN Answer(st, 400,
                           [error |-> "mode must be one of normal|maintenance|slow"])
               ELSE Answer(out.st, 200, [state |-> Summary(out.st)])

\* GET /state
HandleState(st) == Answer(st, 200, [state |-> Summary(st)])

\* Flask's routing of one request
Handle(st, method, path, payload, now) ==
    CASE method = "POST" /\ path = "/reset" -> HandleReset(st, now)
      [] method = "POST" /\ path = "/inventory" -> HandleInventory(st, payload, now)
      [] method = "POST" /\ path = "/purchase" -> HandlePurchase(st, payload, now)
      [] method = "POST" /\ path = "/mode" -> HandleMode(st, payload, now)
      [] method = "GET" /\ path = "/state" -> HandleState(st)

SlowModeDelayMs == 250

\* time.sleep(slow_mode_delay) of the purchase handler, in milliseconds
ServerDelayMs(st, path, payload) ==
    IF path = "/purchase" /\ ~IsNone(payload, "item") /\ ~IsNone(payload, "quantity")
       /\ st.mode = "slow"
    THEN SlowModeDelayMs ELSE 0

\* ------------------------------------------------------------------------
\* engine/action_space.py
\* ------------------------------------------------------------------------
ActionInstance(name, method, path, json) ==
    [name |-> name, method |-> method, path |-> path, json |-> json]

\* The values of rng.randint(lo, hi) that the explored seeds draw: the two
\* ends of the range.
RandintDraws(lo, hi) == {lo, hi}

\* The parameter dicts a template's sampler can return.
Sampler(name) ==
    CASE name = "reset" -> {EmptyDict}
      [] name = "restock" ->
           {[item |-> i, quantity |-> q] : i \in ItemSet, q \in RandintDraws(1, 5)}
      [] name = "drain_inventory" ->
           {[item |-> i, quantity |-> -q] : i \in ItemSet, q \in RandintDraws(1, 3)}
      [] name = "purchase" ->
           {[item |-> i, quantity |-> q, expedite |-> e] :
              i \in ItemSet, q \in RandintDraws(1, 6), e \in BOOLEAN}
      [] name = "toggle_mode" -> {[mode |-> m] : m \in ModeSet}
      [] OTHER -> {EmptyDict}

ActionTemplate(name, method, path) == [name |-> name, method |-> method, path |-> path]

\* ActionSpace.__init__: self.templates
DefaultTemplates ==
    << ActionTemplate("reset", "POST", "/reset"),
       ActionTemplate("restock", "POST", "/inventory"),
       ActionTemplate("drain_inventory", "POST", "/inventory"),
       ActionTemplate("purchase", "POST", "/purchase"),
       ActionTemplate("toggle_mode", "POST", "/mode") >>

\* ActionTemplate.sample, over every draw of the rng
TemplateSamples(t) ==
    {ActionInstance(t.name, t.method, t.path, j) : j \in Sampler(t.name)}

\* rng.choice(templates).sample(rng), over every draw of the rng
SpaceSamples(tmpls) == UNION {TemplateSamples(tmpls[i]) : i \in DOMAIN tmpls}

\* a randint whose range runs one past its upper end
RandintPastEnd(lo, hi) == lo..(hi + 1)

\* rng.randint(lo, hi) over every seed: each integer from lo to hi, both ends
\* included
Randint(lo, hi) == lo..hi

\* The parameter dicts a template's sampler returns, over every seed.
SamplerAnySeed(name) ==
    CASE name = "reset" -> {EmptyDict}
      [] name = "restock" ->
           {[item |-> i, quantity |-> q] : i \in ItemSet, q \in Randint(1, 5)}
      [] name = "drain_inventory" ->
           {[item |-> i, quantity |-> -q] : i \in ItemSet, q \in Randint(1, 3)}
      [] name = "purchase" ->
           {[item |-> i, quantity |-> q, expedite |-> e] :
              i \in ItemSet, q \in Randint(1, 6), e \in BOOLEAN}
      [] name = "toggle_mode" -> {[mode |-> m] : m \in ModeSet}
      [] OTHER -> {EmptyDict}

\* ActionTemplate.sample, over every seed
TemplateSampleAnySeed(t) ==
    {ActionInstance(t.name, t.method, t.path, j) : j \in SamplerAnySeed(t.name)}

\* ActionSpace.sample, over every seed
SpaceSampleAnySeed(tmpls) == UNION {TemplateSampleAnySeed(tmpls[i]) : i \in DOMAIN tmpls}

\* ------------------------------------------------------------------------
\* engine/environment.py
\* ------------------------------------------------------------------------
SlowThresholdMs == 250

\* One field of the JSON text of the signature: the value, or null.
JsonField(d, k) == IF k \in DOMAIN d THEN [value |-> d[k]] ELSE [null |-> TRUE]

\* a signature that also serialises the recent events (with their timestamps)
StateSignatureWithEvents(obs) ==
    [alerts |-> Sorted(Get(obs.state, "alerts", <<>>)),
     inventory |-> Get(obs.state, "inventory", EmptyDict),
     invariants |-> Sorted(Get(obs.state, "invariants", <<>>)),
     mode |-> JsonField(obs.state, "mode"),
     orders_total |-> JsonField(obs.state, "orders_total"),
     recent_events |-> Get(obs.state, "recent_events", <<>>),
     state_version |-> JsonField(obs.state, "state_version")]

\* Observation.state_signature: json.dumps(summary, sort_keys=True)
StateSignature(obs) ==
    [alerts |-> Sorted(Get(obs.state, "alerts", <<>>)),
     inventory |-> Get(obs.state, "inventory", EmptyDict),
     invariants |-> Sorted(Get(obs.state, "invariants", <<>>)),
     mode |-> JsonField(obs.state, "mode"),
     orders_total |-> JsonField(obs.state, "orders_total"),
     state_version |-> JsonField(obs.state, "state_version")]

\* the loop of anomaly_markers over state["invariants"]
RECURSIVE NegativeMarkers(_)
NegativeMarkers(invariants) ==
    IF invariants = <<>> THEN <<>>
    ELSE (IF Head(invariants) \in {NegativeFlag(i) : i \in ItemSet}
          THEN <<"inventory_negative">> ELSE <<>>)
         \o NegativeMarkers(Tail(invariants))

\* markers that take only server errors for anomalies
AnomalyMarkersServerErrorsOnly(obs) ==
    (IF obs.status_code >= 500 THEN <<"http_5xx">> ELSE <<>>)
    \o (IF Get(obs.state, "alerts", <<>>) # <<>> THEN <<"alerts_present">> ELSE <<>>)
    \o NegativeMarkers(Get(obs.state, "invariants", <<>>))
    \o (IF obs.latency_ms > SlowThresholdMs THEN <<"slow_response">> ELSE <<>>)

\* Observation.anomaly_markers
AnomalyMarkers(obs) ==
    (IF obs.status_code >= 500 THEN <<"http_5xx">> ELSE <<>>)
    \o (IF obs.status_code >= 400 THEN <<"http_4xx">> ELSE <<>>)
    \o (IF Get(obs.state, "alerts", <<>>) # <<>> THEN <<"alerts_present">> ELSE <<>>)
    \o NegativeMarkers(Get(obs.state, "invariants", <<>>))
    \o (IF obs.latency_ms > SlowThresholdMs THEN <<"slow_response">> ELSE <<>>)

\* fallback or {}
Fallback(response_json) ==
    IF "state" \in DOMAIN response_json THEN response_json.state ELSE EmptyDict

\* a _fetch_state that gives up the embedded state when GET /state fails
FetchStateWithoutFallback(st, response_json, fetched) ==
    IF fetched
    THEN Get(HandleState(st).body, "state", Fallback(response_json))
    ELSE EmptyDict

\* BackendEnvironment._fetch_state; fetched is FALSE when GET /state fails
FetchState(st, response_json, fetched) ==
    IF fetched
    THEN Get(HandleState(st).body, "state", Fallback(response_json))
    ELSE Fallback(response_json)

\* BackendEnvironment.perform when the action request is answered: the
\* target's next AppState and the Observation.  network_ms is the time the
\* exchange takes beyond the handler's own sleep.
Perform(st, action, now, network_ms, fetched) ==
    LET ans == Handle(st, action.method, action.path, action.json, now)
        state == FetchState(ans.st, ans.body, fetched)
    IN [st |-> ans.st,
        obs |-> [action |-> action,
                 status_code |-> ans.status_code,
                 latency_ms |-> ServerDelayMs(st, action.path, action.json) + network_ms,
                 response_json |-> ans.body,
                 state |-> state,
                 log_excerpt |-> Get(state, "recent_events", <<>>)]]

\* BackendEnvironment.reset: the canonical reset action
ResetAction == ActionInstance("reset", "POST", "/reset", EmptyDict)

\* ------------------------------------------------------------------------
\* engine/explorer.py
\* ------------------------------------------------------------------------
\* NoveltyArchive.__init__
EmptyArchive == [state_signatures |-> {}, anomaly_signatures |-> {}]

\* "|".join(sorted(markers))
AnomalySignature(obs) == JoinBar(Sorted(AnomalyMarkers(obs)))

\* an update that records the state signature of anomalous observations only
ArchiveUpdateAnomalousOnly(archive, obs) ==
    IF AnomalyMarkers(obs) # <<>>
    THEN [state_signatures |-> archive.state_signatures \cup {StateSignature(obs)},
          anomaly_signatures |-> archive.anomaly_signatures \cup {AnomalySignature(obs)}]
    ELSE archive

\* NoveltyArchive.update
ArchiveUpdate(archive, obs) ==
    [state_signatures |-> archive.state_signatures \cup {StateSignature(obs)},
     anomaly_signatures |->
        IF AnomalyMarkers(obs) # <<>>
        THEN archive.anomaly_signatures \cup {AnomalySignature(obs)}
        ELSE archive.anomaly_signatures]

\* NoveltyArchive.is_new_state
IsNewState(archive, obs) == StateSignature(obs) \notin archive.state_signatures

\* NoveltyArchive.is_new_anomaly
IsNewAnomaly(archive, obs) ==
    IF AnomalyMarkers(obs) = <<>> THEN FALSE
    ELSE AnomalySignature(obs) \notin archive.anomaly_signatures

\* RewardModel.__init__ defaults, in tenths
NoveltyWeight == 10

AnomalyWeight == 20

LatencyWeight == 5

ErrorStatusBonus == 3

\* the per-marker term of RewardModel.score
MarkerTerm(obs) ==
    IF AnomalyMarkers(obs) # <<>> THEN AnomalyWeight * Len(AnomalyMarkers(obs)) ELSE 0

\* a score computed after the archive has recorded the observation
ScoreAfterUpdate(obs, archive) ==
    (IF IsNewState(ArchiveUpdate(archive, obs), obs) THEN NoveltyWeight ELSE 0)
    + MarkerTerm(obs)
    + (IF IsNewAnomaly(ArchiveUpdate(archive, obs), obs) THEN AnomalyWeight ELSE 0)
    + (IF obs.latency_ms > SlowThresholdMs THEN LatencyWeight ELSE 0)
    + (IF obs.status_code >= 400 THEN ErrorStatusBonus ELSE 0)

\* RewardModel.score
Score(obs, archive) ==
    (IF IsNewState(archive, obs) THEN NoveltyWeight ELSE 0)
    + MarkerTerm(obs)
    + (IF IsNewAnomaly(archive, obs) THEN AnomalyWeight ELSE 0)
    + (IF obs.latency_ms > SlowThresholdMs THEN LatencyWeight ELSE 0)
    + (IF obs.status_code >= 400 THEN ErrorStatusBonus ELSE 0)

RECURSIVE Gcd(_, _)
Gcd(a, b) == IF b = 0 THEN a ELSE Gcd(b, a % b)

Abs(a) == IF a < 0 THEN -a ELSE a

\* A running average, kept as the exact fraction num/den in lowest terms.
Fraction(num, den) ==
    LET g == Gcd(Abs(num), den)
    IN IF num = 0 THEN [num |-> 0, den |-> 1] ELSE [num |-> num \div g, den |-> den \div g]

FractionLess(a, b) == a.num * b.den < b.num * a.den

\* the index of action_name in action_stats, 0 when it has no entry
StatsIndex(stats, name) ==
    IF \E i \in DOMAIN stats : stats[i].name = name
    THEN CHOOSE i \in DOMAIN stats : stats[i].name = name
    ELSE 0

\* an observe that averages the old average with the new reward
ObserveHalves(stats, name, reward) ==
    LET known == IF StatsIndex(stats, name) = 0
                 THEN Append(stats, [name |-> name, count |-> 0, avg |-> Fraction(0, 1)])
                 ELSE stats
        i == StatsIndex(known, name)
        count == known[i].count
        avg == known[i].avg
    IN [known EXCEPT ![i] = [name |-> name,
                             count |-> count + 1,
                             avg |-> IF count = 0 THEN Fraction(reward, 1)
                                     ELSE Fraction(avg.num + reward * avg.den,
                                                   avg.den * 2)]]

\* EpsilonGreedyPolicy.observe; action_stats is kept in insertion order
Observe(stats, name, reward) ==
    LET known == IF StatsIndex(stats, name) = 0
                 THEN Append(stats, [name |-> name, count |-> 0, avg |-> Fraction(0, 1)])
                 ELSE stats
        i == StatsIndex(known, name)
        count == known[i].count
        avg == known[i].avg
    IN [known EXCEPT ![i] = [name |-> name,
                             count |-> count + 1,
                             avg |-> Fraction(avg.num * count + reward * avg.den,
                                              avg.den * (count + 1))]]

\* the name observed first, whatever its average
FirstObservedName(stats) == stats[1].name

\* max(scored, key=...)[0]: the first name, in insertion order, of maximal avg
BestName(stats) ==
    LET best == CHOOSE i \in DOMAIN stats :
                  /\ \A j \in DOMAIN stats : ~FractionLess(stats[i].avg, stats[j].avg)
                  /\ \A j \in 1..(i - 1) : FractionLess(stats[j].avg, stats[i].avg)
    IN stats[best].name

\* the values rng.random() can take, in hundredths
RandomDraws == 0..99

\* rng.choice(templates) raises IndexError on an empty list, and with an
\* empty catalog every branch of select reaches it
SelectRaises(tmpls) == tmpls = <<>>

\* an exploitation that samples the best name without looking it up in the
\* catalog
ExploitWithoutLookup(tmpls, stats) ==
    IF stats = <<>> THEN SpaceSamples(tmpls)
    ELSE {ActionInstance(BestName(stats), "POST", "/" \o BestName(stats), j) :
            j \in Sampler(BestName(stats))}

\* an exploitation that samples any template, whatever the statistics
ExploitAnyTemplate(tmpls, stats) == SpaceSamples(tmpls)

\* the exploitation branch of EpsilonGreedyPolicy.select
Exploit(tmpls, stats) ==
    IF stats = <<>> THEN SpaceSamples(tmpls)
    ELSE LET candidates == SelectSeq(tmpls, LAMBDA t : t.name = BestName(stats))
         IN IF candidates = <<>> THEN SpaceSamples(tmpls)
            ELSE TemplateSamples(candidates[1])

\* EpsilonGreedyPolicy.select: every ActionInstance some draw of the rng returns
Select(tmpls, stats, eps) ==
    (IF \E r \in RandomDraws : r < eps THEN SpaceSamples(tmpls) ELSE {})
    \cup (IF \E r \in RandomDraws : ~(r < eps) THEN Exploit(tmpls, stats) ELSE {})

\* EpisodeStep(step=..., action=..., observation=..., reward=...)
EpisodeStep(idx, action, obs, reward) ==
    [step |-> idx, action |-> action, observation |-> obs, reward |-> reward]

\* EpisodeStep.to_dict
StepToDict(es) ==
    [step |-> es.step,
     action |-> es.action,
     reward |-> es.reward,
     status_code |-> es.observation.status_code,
     latency_ms |-> es.observation.latency_ms,
     state_signature |-> StateSignature(es.observation),
     anomaly_markers |-> AnomalyMarkers(es.observation),
     response_json |-> es.observation.response_json,
     state |-> es.observation.state,
     log_excerpt |-> es.observation.log_excerpt]

\* EpisodeLog.to_json
EpisodeToJson(ep) ==
    [seed |-> ep.seed,
     base_url |-> ep.base_url,
     start_ts |-> ep.start_ts,
     steps |-> [i \in DOMAIN ep.steps |-> StepToDict(ep.steps[i])]]

\* EpisodeLog.anomalies
Anomalies(ep) == SelectSeq(ep.steps, LAMBDA es : AnomalyMarkers(es.observation) # <<>>)

\* the file name ReplayWriter.persist writes
ArtifactName(ep) ==
    "episode_seed" \o ToString(ep.seed) \o "_" \o ToString(ep.start_ts) \o ".json"

\* ReplayWriter.persist: path.write_text(episode.to_json())
Persist(files, ep) ==
    [f \in DOMAIN files \cup {ArtifactName(ep)} |->
        IF f = ArtifactName(ep) THEN EpisodeToJson(ep) ELSE files[f]]

\* a loop that advances its index by two
NextIndexSkips(idx) == idx + 2

\* for step_idx in range(steps): the index of the next iteration
NextIndex(idx) == idx + 1

\* for step_idx in range(steps): another iteration, or the return that follows
\* the last one
LoopOrReturn(idx, n) == IF idx < n THEN "loop" ELSE "returned"

\* persisting on error statuses only
ShouldPersistOnError(obs) == obs.status_code >= 400

\* if obs.anomaly_markers(): self.replay_writer.persist(episode)
ShouldPersist(obs) == AnomalyMarkers(obs) # <<>>

BaseUrl == "http://127.0.0.1:8000"

\* inputs of the runs
Seeds == {42}

NetworkMsDraws == {20, 300}

QuietNetworkMs == {20}

\* ------------------------------------------------------------------------
\* engine/replay.py
\* ------------------------------------------------------------------------
\* load_episode: json.loads of the document EpisodeLog.to_json wrote
LoadEpisode(files, path) == files[path]

\* a replay that rebuilds the action without its parameters
StoredActionWithoutParameters(step) ==
    ActionInstance(step.action.name, step.action.method, step.action.path, EmptyDict)

\* the ActionInstance replay rebuilds from step["action"]
StoredAction(step) ==
    ActionInstance(step.action.name, step.action.method, step.action.path,
                   step.action.json)

\* the row replay appends for one stored step
ReplayRow(step, obs) ==
    [step |-> step.step,
     action |-> step.action,
     expected_status |-> step.status_code,
     actual_status |-> obs.status_code,
     anomaly_markers |-> AnomalyMarkers(obs),
     state_signature |-> StateSignature(obs)]

\* a request perform has sent and the status the target answered
Exchange(obs) == [action |-> obs.action, status_code |-> obs.status_code]

VARIABLES
    app,           \* the target's AppState (STATE of demo_app.py)
    clock,         \* time.time() of the target, in ticks
    templates,     \* Explorer.action_space.templates
    epsilon,       \* Explorer.policy.epsilon, in hundredths
    action_stats,  \* Explorer.policy.action_stats
    files,         \* the artifact directory: file name -> JSON document
    pc,            \* where run_episode is
    steps,         \* run_episode's argument
    step_idx,      \* run_episode's loop variable
    episode,       \* run_episode's EpisodeLog
    archive,       \* run_episode's NoveltyArchive
    finished,      \* what the earlier run_episode calls of the Explorer returned
    rpc,           \* where replay is
    replayed,      \* replay's episode (the loaded document)
    rows,          \* replay's results list
    returned_rows, \* what each finished call of replay returned
    sent,          \* the requests of replay's last call, with the status answered
    lock,          \* AppState._lock: the thread that holds it, 0 when free
    tpc,           \* where each thread of the target is in its AppState call
    tcall,         \* the AppState call each thread is in
    calls,         \* the number of AppState calls made
    updates,       \* the observations NoveltyArchive.update was called with
    last_call,     \* the last call on the object under study, with its result
    scored,        \* the applications of RewardModel.score made
    fed,           \* the calls of EpsilonGreedyPolicy.observe made on a policy
    signed,        \* the applications of Observation.state_signature made
    tape,          \* the draws made so far from each random.Random stream
    twin           \* two run_episode calls with the same arguments, side by side

explorerVars == <<templates, epsilon, action_stats, files, pc, steps, step_idx,
                  episode, archive, finished>>

replayVars == <<rpc, replayed, rows, returned_rows, sent>>

lockVars == <<lock, tpc, tcall, calls>>

pureVars == <<updates, last_call, scored, fed, signed, tape, twin>>

vars == <<app, clock, explorerVars, replayVars, lockVars, pureVars>>

\* No call on a stand-alone archive or reward model has been made.
NoPureCalls ==
    /\ updates = <<>>
    /\ last_call = [op |-> "none"]
    /\ scored = {}
    /\ fed = <<>>
    /\ signed = {}
    /\ tape = <<>>
    /\ twin = <<>>

MaxThreads == 2

MaxCalls == 2

Threads == 1..MaxThreads

NoCall == [op |-> "none"]

\* No thread of the target is inside an AppState method.
TargetQuiescent ==
    /\ lock = 0
    /\ tpc = [t \in Threads |-> "idle"]
    /\ tcall = [t \in Threads |-> NoCall]
    /\ calls = 0

\* The target is up (STATE constructed) and the Explorer constructed, as
\* run_engine.main does; run_episode(steps, seed) has been called.
Init ==
    /\ app = ResetBody(0)
    /\ clock = 1
    /\ templates = DefaultTemplates
    /\ epsilon = 25
    /\ action_stats = <<>>
    /\ files = EmptyDict
    /\ pc = "start"
    /\ steps \in 0..MaxSteps
    /\ \E seed \in Seeds :
         episode = [seed |-> seed, steps |-> <<>>, start_ts |-> clock, base_url |-> BaseUrl]
    /\ step_idx = 0
    /\ archive = EmptyArchive
    /\ rpc = "idle"
    /\ replayed = EmptyDict
    /\ rows = <<>>
    /\ returned_rows = <<>>
    /\ sent = <<>>
    /\ finished = <<>>
    /\ TargetQuiescent
    /\ NoPureCalls

\* run_episode and replay are not running; the target is up.
InitStandalone ==
    /\ app = ResetBody(0)
    /\ clock = 1
    /\ templates = DefaultTemplates
    /\ epsilon = 25
    /\ action_stats = <<>>
    /\ files = EmptyDict
    /\ pc = "off"
    /\ steps = 0
    /\ episode = EmptyDict
    /\ step_idx = 0
    /\ rpc = "off"
    /\ replayed = EmptyDict
    /\ rows = <<>>
    /\ returned_rows = <<>>
    /\ sent = <<>>
    /\ finished = <<>>
    /\ TargetQuiescent
    /\ NoPureCalls

\* run_episode up to its loop: env.reset(), archive.update, policy.observe
BeginEpisodeOver(latencies) ==
    /\ pc = "start"
    /\ \E network_ms \in latencies :
       \E done \in {Perform(app, ResetAction, clock, network_ms, TRUE)} :
         /\ app' = done.st
         /\ archive' = ArchiveUpdate(archive, done.obs)
    /\ action_stats' = Observe(action_stats, "reset", 0)
    /\ clock' = clock + 1
    /\ pc' = LoopOrReturn(step_idx, steps)
    /\ UNCHANGED <<templates, epsilon, files, steps, step_idx, episode, finished>>
    /\ UNCHANGED <<replayVars, lockVars, pureVars>>

\* one iteration of the loop of run_episode, the action request and the
\* GET /state that follows it answered (with the catalog's actions the state a
\* failed GET /state falls back to is the same snapshot)
StepOver(latencies) ==
    /\ pc = "loop"
    /\ step_idx < steps
    /\ \E action \in Select(templates, action_stats, epsilon),
          network_ms \in latencies :
       \E done \in {Perform(app, action, clock, network_ms, TRUE)} :
       \E reward \in {Score(done.obs, archive)} :
       \E grown \in {[episode EXCEPT !.steps =
                        Append(@, EpisodeStep(step_idx, action, done.obs, reward))]} :
         /\ app' = done.st
         /\ archive' = ArchiveUpdate(archive, done.obs)
         /\ action_stats' = Observe(action_stats, action.name, reward)
         /\ episode' = grown
         /\ files' = IF ShouldPersist(done.obs) THEN Persist(files, grown) ELSE files
    /\ step_idx' = NextIndex(step_idx)
    /\ pc' = LoopOrReturn(NextIndex(step_idx), steps)
    /\ clock' = clock + 1
    /\ UNCHANGED <<templates, epsilon, steps, finished>>
    /\ UNCHANGED <<replayVars, lockVars, pureVars>>

BeginEpisode == BeginEpisodeOver(NetworkMsDraws)

Step == StepOver(NetworkMsDraws)

\* self._session.request raises before the target handles the request
\* (connection refused, connect timeout): nothing in perform, reset or
\* run_episode catches it.
TransportError ==
    /\ pc \in {"start", "loop"}
    /\ pc' = IF pc = "start" THEN "reset_raised" ELSE "step_raised"
    /\ UNCHANGED <<app, clock, templates, epsilon, action_stats, files, steps, step_idx,
                   episode, finished, archive>>
    /\ UNCHANGED <<replayVars, lockVars, pureVars>>

Next == BeginEpisode \/ Step \/ TransportError

Spec == Init /\ [][Next]_vars

\* ------------------------------------------------------------------------
\* Replay of a persisted episode (engine/replay.py), after run_episode
\* ------------------------------------------------------------------------
MaxReplays == 2

BeginEpisodeQuiet == BeginEpisodeOver(QuietNetworkMs)

StepQuiet == StepOver(QuietNetworkMs)

\* replay up to its loop: load_episode, BackendEnvironment, env.reset();
\* run_episode has ended, or the artifact is one an earlier run stored
ReplayBegin ==
    /\ pc \in {"returned", "reset_raised", "step_raised", "off"}
    /\ rpc = "idle"
    /\ Len(returned_rows) < MaxReplays
    /\ \E path \in DOMAIN files, fetched \in BOOLEAN, network_ms \in QuietNetworkMs :
       \E done \in {Perform(app, ResetAction, clock, network_ms, fetched)} :
         /\ replayed' = LoadEpisode(files, path)
         /\ app' = done.st
         /\ sent' = <<Exchange(done.obs)>>
    /\ clock' = clock + 1
    /\ rows' = <<>>
    /\ rpc' = "loop"
    /\ UNCHANGED returned_rows
    /\ UNCHANGED <<explorerVars, lockVars, pureVars>>

\* one iteration of the loop of replay
ReplayStep ==
    /\ rpc = "loop"
    /\ Len(rows) < Len(replayed.steps)
    /\ \E fetched \in BOOLEAN, network_ms \in QuietNetworkMs :
       \E step \in {replayed.steps[Len(rows) + 1]} :
       \E done \in {Perform(app, StoredAction(step), clock, network_ms, fetched)} :
         /\ app' = done.st
         /\ rows' = Append(rows, ReplayRow(step, done.obs))
         /\ sent' = Append(sent, Exchange(done.obs))
    /\ clock' = clock + 1
    /\ UNCHANGED <<rpc, replayed, returned_rows>>
    /\ UNCHANGED <<explorerVars, lockVars, pureVars>>

\* return results
ReplayReturn ==
    /\ rpc = "loop"
    /\ Len(rows) = Len(replayed.steps)
    /\ returned_rows' = Append(returned_rows, rows)
    /\ rpc' = "idle"
    /\ UNCHANGED <<app, clock, replayed, rows, sent>>
    /\ UNCHANGED <<explorerVars, lockVars, pureVars>>

\* a request of replay raises at transport level: replay raises, no row is
\* returned
ReplayTransportError ==
    /\ rpc = "loop"
    /\ Len(rows) < Len(replayed.steps)
    /\ rpc' = "raised"
    /\ UNCHANGED <<app, clock, replayed, rows, returned_rows, sent>>
    /\ UNCHANGED <<explorerVars, lockVars, pureVars>>

NextReplay ==
    \/ BeginEpisodeQuiet \/ StepQuiet \/ TransportError
    \/ ReplayBegin \/ ReplayStep \/ ReplayReturn \/ ReplayTransportError

SpecReplay == Init /\ [][NextReplay]_vars

\* ------------------------------------------------------------------------
\* Replay (engine/replay.py) of artifacts stored by earlier runs, against a
\* target that serves another client at the same time (demo_app.py answers
\* whoever posts to it)
\* ------------------------------------------------------------------------
\* the steps run_episode records when the policy selects the given actions,
\* one request per tick of the target's clock
RECURSIVE ForcedSteps(_, _, _, _)
ForcedSteps(st, seen, actions, recorded) ==
    IF actions = <<>> THEN recorded
    ELSE LET done == Perform(st, Head(actions), Len(recorded) + 2,
                             CHOOSE ms \in QuietNetworkMs : TRUE, TRUE)
             reward == Score(done.obs, seen)
         IN ForcedSteps(done.st, ArchiveUpdate(seen, done.obs), Tail(actions),
                        Append(recorded,
                               EpisodeStep(Len(recorded), Head(actions), done.obs, reward)))

\* the EpisodeLog of that run
RecordedEpisode(actions) ==
    LET first == Perform(ResetBody(0), ResetAction, 1,
                         CHOOSE ms \in QuietNetworkMs : TRUE, TRUE)
    IN [seed |-> CHOOSE seed \in Seeds : TRUE,
        steps |-> ForcedSteps(first.st, ArchiveUpdate(EmptyArchive, first.obs),
                              actions, <<>>),
        start_ts |-> 1,
        base_url |-> BaseUrl]

\* the selections of the stored runs: an oversell and a rejected purchase;
\* a purchase, a mode change and a rejected purchase
ForcedRuns ==
    {<< ActionInstance("purchase", "POST", "/purchase",
                       [item |-> "gadgets", quantity |-> 6, expedite |-> TRUE]),
        ActionInstance("purchase", "POST", "/purchase",
                       [item |-> "gadgets", quantity |-> 1, expedite |-> FALSE]) >>,
     << ActionInstance("purchase", "POST", "/purchase",
                       [item |-> "widgets", quantity |-> 1, expedite |-> FALSE]),
        ActionInstance("toggle_mode", "POST", "/mode", [mode |-> "slow"]),
        ActionInstance("purchase", "POST", "/purchase",
                       [item |-> "doodads", quantity |-> 6, expedite |-> FALSE]) >>}

\* the artifact directories replay starts from: one stored episode each
StoredArtifacts == {Persist(EmptyDict, RecordedEpisode(run)) : run \in ForcedRuns}

\* the replay process starts: the target is up, an artifact is on disk
InitReplayStored ==
    /\ app = ResetBody(0)
    /\ clock = 1
    /\ templates = DefaultTemplates
    /\ epsilon = 25
    /\ action_stats = <<>>
    /\ files \in StoredArtifacts
    /\ pc = "off"
    /\ steps = 0
    /\ episode = EmptyDict
    /\ step_idx = 0
    /\ archive = EmptyArchive
    /\ rpc = "idle"
    /\ replayed = EmptyDict
    /\ rows = <<>>
    /\ returned_rows = <<>>
    /\ sent = <<>>
    /\ finished = <<>>
    /\ TargetQuiescent
    /\ NoPureCalls

\* what the other client posts: it closes the store
OtherClientRequests ==
    {ActionInstance("toggle_mode", "POST", "/mode", [mode |-> "maintenance"])}

\* the target answers a request of the other client during a replay
OtherClient ==
    /\ rpc = "loop"
    /\ calls < MaxCalls
    /\ \E request \in OtherClientRequests :
         app' = Handle(app, request.method, request.path, request.json, clock).st
    /\ clock' = clock + 1
    /\ calls' = calls + 1
    /\ UNCHANGED <<lock, tpc, tcall, explorerVars, replayVars, pureVars>>

NextReplayStored ==
    ReplayBegin \/ ReplayStep \/ ReplayReturn \/ ReplayTransportError \/ OtherClient

SpecReplayStored == InitReplayStored /\ [][NextReplayStored]_vars

\* C18: replay sends one reset and then the stored actions, verbatim and in
\* stored order; its rows are one per stored step, in that order, each with
\* the recorded status and the status the target answered; and whatever the
\* statuses of the rows so far, the next stored step can be replayed.
C18_ReplayVerbatimInOrder ==
    rpc \in {"loop", "idle"} /\ sent # <<>> =>
        /\ sent[1].action = ResetAction
        /\ Len(sent) = Len(rows) + 1
        /\ Len(rows) <= Len(replayed.steps)
        /\ \A k \in DOMAIN rows :
             /\ sent[k + 1].action = replayed.steps[k].action
             /\ rows[k].step = replayed.steps[k].step
             /\ rows[k].action = replayed.steps[k].action
             /\ rows[k].expected_status = replayed.steps[k].status_code
             /\ rows[k].actual_status = sent[k + 1].status_code
        /\ rpc = "loop" /\ Len(rows) < Len(replayed.steps) => ENABLED ReplayStep
        /\ \A r \in DOMAIN returned_rows : Len(returned_rows[r]) = Len(replayed.steps)
        /\ rpc = "idle" => returned_rows[Len(returned_rows)] = rows

C18_Witness ==
    /\ rpc = "idle"
    /\ Len(returned_rows) = 1
    /\ Len(rows) = 3
    /\ rows[1].expected_status = 201
    /\ rows[1].actual_status = 409
    /\ rows[2].actual_status = 200
    /\ rows[3].actual_status = rows[3].expected_status

\* ------------------------------------------------------------------------
\* The threads of the target inside AppState (demo_app.py): self._lock is a
\* threading.Lock, which is not reentrant
\* ------------------------------------------------------------------------
\* The calls the threads make: the constructor's and the handlers'.
AppCalls ==
    {[op |-> "reset"], [op |-> "summary"]}
    \cup {[op |-> "add_inventory", item |-> "gadgets", quantity |-> q] : q \in {1, -3}}
    \cup {[op |-> "toggle_mode", mode |-> m] : m \in {"maintenance", "bogus"}}
    \cup {[op |-> "purchase", item |-> "gadgets", quantity |-> q, expedite |-> e] :
            q \in {0, 1, 6}, e \in BOOLEAN}

\* the checks a method makes before its `with self._lock`
RaisesBeforeLock(call) ==
    \/ call.op = "toggle_mode" /\ call.mode \notin ModeSet
    \/ call.op = "purchase" /\ call.quantity <= 0

\* the statements of a method inside its `with self._lock`, up to its
\* `return self.summary()`
MethodBody(st, call, now) ==
    CASE call.op = "reset" -> Outcome(ResetBody(now), "none")
      [] call.op = "add_inventory" ->
           AddInventoryBody(st, call.item, call.quantity, now)
      [] call.op = "toggle_mode" -> ToggleModeBody(st, call.mode, now)
      [] call.op = "purchase" ->
           PurchaseBody(st, call.item, call.quantity, call.expedite, now)

InitLock == InitStandalone /\ archive = EmptyArchive

\* a thread calls a method of STATE; summary() starts at its own `with`
CallMethod(t) ==
    /\ tpc[t] = "idle"
    /\ calls < MaxCalls
    /\ \E call \in AppCalls :
         /\ tcall' = [tcall EXCEPT ![t] = call]
         /\ tpc' = [tpc EXCEPT ![t] =
                      IF RaisesBeforeLock(call) THEN "raised"
                      ELSE IF call.op = "summary" THEN "at_summary_with"
                      ELSE "at_with"]
    /\ calls' = calls + 1
    /\ UNCHANGED <<app, clock, lock, explorerVars, replayVars, pureVars>>

\* `with self._lock`: Lock.acquire() returns once the lock is free
LockAcquire(t) ==
    /\ tpc[t] \in {"at_with", "at_summary_with"}
    /\ lock = 0
    /\ lock' = t
    /\ tpc' = [tpc EXCEPT ![t] = IF @ = "at_with" THEN "in_body" ELSE "in_summary"]
    /\ UNCHANGED <<app, clock, tcall, calls, explorerVars, replayVars, pureVars>>

\* the body of the method under the lock: an exception leaves the `with` and
\* releases the lock, otherwise the method goes on to call self.summary()
\* with the lock still held
RunBody(t) ==
    /\ tpc[t] = "in_body"
    /\ \E out \in {MethodBody(app, tcall[t], clock)} :
         /\ app' = out.st
         /\ IF out.raised # "none"
            THEN lock' = 0 /\ tpc' = [tpc EXCEPT ![t] = "raised"]
            ELSE lock' = lock /\ tpc' = [tpc EXCEPT ![t] = "at_summary_with"]
    /\ clock' = clock + 1
    /\ UNCHANGED <<tcall, calls, explorerVars, replayVars, pureVars>>

\* the body of summary(): build the dict, leave the `with`, return
RunSummary(t) ==
    /\ tpc[t] = "in_summary"
    /\ lock' = 0
    /\ tpc' = [tpc EXCEPT ![t] = "returned"]
    /\ UNCHANGED <<app, clock, tcall, calls, explorerVars, replayVars, pureVars>>

\* the caller takes the result and the thread is free for another call
Finish(t) ==
    /\ tpc[t] \in {"returned", "raised"}
    /\ tpc' = [tpc EXCEPT ![t] = "idle"]
    /\ tcall' = [tcall EXCEPT ![t] = NoCall]
    /\ UNCHANGED <<app, clock, lock, calls, explorerVars, replayVars, pureVars>>

NextLock ==
    \E t \in Threads :
        CallMethod(t) \/ LockAcquire(t) \/ RunBody(t) \/ RunSummary(t) \/ Finish(t)

SpecLock == InitLock /\ [][NextLock]_vars

\* C3: an operation of AppState that waits for the lock while no other
\* thread holds it can go on (so it completes and releases the lock): no
\* operation is blocked for ever.
C3_OperationCompletes ==
    \A t \in Threads :
        tpc[t] \in {"at_with", "at_summary_with"} /\ lock \in {0, t}
            => ENABLED LockAcquire(t)

\* ------------------------------------------------------------------------
\* One NoveltyArchive under any interleaving of its three methods
\* (engine/explorer.py)
\* ------------------------------------------------------------------------
MaxArchiveCalls == 3

\* The Observation perform builds from an answer of the target in AppState st.
ObservationOf(st, action, status, latency) ==
    [action |-> action,
     status_code |-> status,
     latency_ms |-> latency,
     response_json |-> [state |-> Summary(st)],
     state |-> Summary(st),
     log_excerpt |-> Summary(st).recent_events]

\* The target after an expedited purchase of six gadgets.
Oversold ==
    PurchaseBody(ResetBody(0), "gadgets", 6, TRUE, 1).st

\* The observations the archive is called with: a reset, the same reset
\* answered slowly, an oversell, a rejected purchase.
ArchiveObservations ==
    {ObservationOf(ResetBody(0), ResetAction, 200, 20),
     ObservationOf(ResetBody(0), ResetAction, 200, 300),
     ObservationOf(Oversold,
                   ActionInstance("purchase", "POST", "/purchase",
                                  [item |-> "gadgets", quantity |-> 6, expedite |-> TRUE]),
                   201, 20),
     ObservationOf(PurchaseBody(Oversold, "doodads", 6, FALSE, 2).st,
                   ActionInstance("purchase", "POST", "/purchase",
                                  [item |-> "doodads", quantity |-> 6, expedite |-> FALSE]),
                   409, 20)}

InitArchive == InitStandalone /\ archive = EmptyArchive

ArchiveCalls == Len(updates) + (IF last_call.op = "none" THEN 0 ELSE last_call.n)

\* archive.update(obs)
CallUpdate ==
    /\ ArchiveCalls < MaxArchiveCalls
    /\ \E obs \in ArchiveObservations :
         /\ archive' = ArchiveUpdate(archive, obs)
         /\ updates' = Append(updates, obs)
         /\ last_call' = [op |-> "update", obs |-> obs, before |-> archive,
                          n |-> IF last_call.op = "none" THEN 0 ELSE last_call.n]
    /\ UNCHANGED <<app, clock, templates, epsilon, action_stats, files, pc, steps,
                   step_idx, episode, finished, replayVars, lockVars, scored, fed, signed,
                   tape, twin>>

\* archive.is_new_state(obs)
CallIsNewState ==
    /\ ArchiveCalls < MaxArchiveCalls
    /\ \E obs \in ArchiveObservations :
         last_call' = [op |-> "is_new_state", obs |-> obs, before |-> archive,
                       result |-> IsNewState(archive, obs),
                       n |-> 1 + (IF last_call.op = "none" THEN 0 ELSE last_call.n)]
    /\ UNCHANGED <<app, clock, explorerVars, replayVars, lockVars, updates, scored, fed,
                   signed, tape, twin>>

\* archive.is_new_anomaly(obs)
CallIsNewAnomaly ==
    /\ ArchiveCalls < MaxArchiveCalls
    /\ \E obs \in ArchiveObservations :
         last_call' = [op |-> "is_new_anomaly", obs |-> obs, before |-> archive,
                       result |-> IsNewAnomaly(archive, obs),
                       n |-> 1 + (IF last_call.op = "none" THEN 0 ELSE last_call.n)]
    /\ UNCHANGED <<app, clock, explorerVars, replayVars, lockVars, updates, scored, fed,
                   signed, tape, twin>>

NextArchive == CallUpdate \/ CallIsNewState \/ CallIsNewAnomaly

SpecArchive == InitArchive /\ [][NextArchive]_vars

\* C8: is_new_state(obs) is true exactly when no update has been called with
\* an observation of the same state signature, whatever queries came in
\* between, and a query leaves the archive as it was.
C8_NewStateUntilUpdated ==
    /\ last_call.op = "is_new_state" =>
         last_call.result =
            (\A i \in DOMAIN updates :
                StateSignature(updates[i]) # StateSignature(last_call.obs))
    /\ last_call.op \in {"is_new_state", "is_new_anomaly"} => archive = last_call.before

C8_Witness ==
    /\ Len(updates) = 1
    /\ last_call.op = "is_new_state"
    /\ last_call.n = 2
    /\ last_call.result = FALSE
    /\ updates[1] # last_call.obs

\* ------------------------------------------------------------------------
\* RewardModel.score over the observations of the adapter
\* (engine/explorer.py)
\* ------------------------------------------------------------------------
MaxScored == 2

\* the AppState after a sequence of calls, each one tick after the other
RECURSIVE AfterCalls(_, _, _)
AfterCalls(st, callseq, now) ==
    IF callseq = <<>> THEN st
    ELSE AfterCalls(MethodBody(st, Head(callseq), now).st, Tail(callseq), now + 1)

Drain(item, quantity) == [op |-> "add_inventory", item |-> item, quantity |-> quantity]

\* drain_inventory requests that leave no, one, two and three items negative
DrainRuns ==
    {<<>>,
     <<Drain("doodads", -3)>>,
     <<Drain("doodads", -3), Drain("gadgets", -3), Drain("gadgets", -1)>>,
     <<Drain("doodads", -3), Drain("gadgets", -3), Drain("gadgets", -1),
       Drain("widgets", -3), Drain("widgets", -3), Drain("widgets", -1)>>}

\* with and without an expedited purchase that oversells the gadgets
OversellRuns ==
    {<<>>,
     <<[op |-> "purchase", item |-> "gadgets", quantity |-> 6, expedite |-> TRUE]>>}

\* AppStates with up to three negative items, with and without an alert
ScoreStates ==
    {AfterCalls(ResetBody(0), o \o d, 1) : d \in DrainRuns, o \in OversellRuns}

ScoreObservations ==
    {ObservationOf(st, ResetAction, status, latency) :
        st \in ScoreStates, status \in {201, 409, 500}, latency \in NetworkMsDraws}

\* the archive after an observation with an alert and one negative item
InitScore ==
    /\ InitStandalone
    /\ archive \in {EmptyArchive} \cup
         {ArchiveUpdate(EmptyArchive, obs) :
            obs \in {o \in ScoreObservations :
                        /\ o.status_code = 201 /\ o.latency_ms = 20
                        /\ AnomalyMarkers(o) = <<"alerts_present", "inventory_negative">>}}

\* reward_model.score(obs, archive)
CallScore ==
    /\ Cardinality(scored) < MaxScored
    /\ \E obs \in ScoreObservations :
         scored' = scored \cup {[obs |-> obs, reward |-> Score(obs, archive)]}
    /\ UNCHANGED <<app, clock, explorerVars, replayVars, lockVars, updates, last_call, fed,
                   signed, tape, twin>>

NextScore == CallScore

SpecScore == InitScore /\ [][NextScore]_vars

\* the number of distinct anomaly markers of an observation
DistinctMarkers(obs) == Cardinality(Range(AnomalyMarkers(obs)))

\* C9: of two observations with the same new-state verdict, latency and
\* status code, the one with more distinct anomaly markers does not score
\* less.
C9_ScoreMonotoneInMarkers ==
    \A a, b \in scored :
        /\ IsNewState(archive, a.obs) = IsNewState(archive, b.obs)
        /\ a.obs.latency_ms = b.obs.latency_ms
        /\ a.obs.status_code = b.obs.status_code
        /\ DistinctMarkers(a.obs) < DistinctMarkers(b.obs)
        => a.reward <= b.reward

\* C10: the reward is the novelty, new-anomaly, latency and status bonuses
\* plus anomaly_weight times the number of distinct anomaly markers.
C10_MarkerTermCountsDistinct ==
    \A e \in scored :
        e.reward =
            (IF IsNewState(archive, e.obs) THEN NoveltyWeight ELSE 0)
            + AnomalyWeight * DistinctMarkers(e.obs)
            + (IF IsNewAnomaly(archive, e.obs) THEN AnomalyWeight ELSE 0)
            + (IF e.obs.latency_ms > SlowThresholdMs THEN LatencyWeight ELSE 0)
            + (IF e.obs.status_code >= 400 THEN ErrorStatusBonus ELSE 0)

\* ------------------------------------------------------------------------
\* Observation.state_signature on states whose dicts keep the key order they
\* were decoded with (engine/environment.py).  Here a dict is the sequence
\* of its [key, value] items in insertion order.
\* ------------------------------------------------------------------------
MaxSigned == 2

Keys(pairs) == {pairs[i].key : i \in DOMAIN pairs}

\* d[k]
PairsValue(pairs, k) == pairs[CHOOSE i \in DOMAIN pairs : pairs[i].key = k].value

\* d.get(k, default)
PairsGet(pairs, k, default) == IF k \in Keys(pairs) THEN PairsValue(pairs, k) ELSE default

\* d.get(k) as a JSON value: the value, or null
PairsField(pairs, k) ==
    IF k \in Keys(pairs) THEN [value |-> PairsValue(pairs, k)] ELSE [null |-> TRUE]

RECURSIVE InsertByKey(_, _)
InsertByKey(sorted, pair) ==
    IF sorted = <<>> THEN <<pair>>
    ELSE IF StrLeq(pair.key, Head(sorted).key) THEN <<pair>> \o sorted
    ELSE <<Head(sorted)>> \o InsertByKey(Tail(sorted), pair)

\* a json.dumps that writes the keys in the order of the dict
KeepKeyOrder(pairs) == pairs

\* the order json.dumps(..., sort_keys=True) writes the items of a dict in
RECURSIVE SortKeys(_)
SortKeys(pairs) ==
    IF pairs = <<>> THEN <<>>
    ELSE InsertByKey(SortKeys(SubSeq(pairs, 1, Len(pairs) - 1)), pairs[Len(pairs)])

\* Observation.state_signature: the items of the JSON text, in text order
OrderedStateSignature(state) ==
    SortKeys(<< [key |-> "inventory",
                 value |-> SortKeys(PairsGet(state, "inventory", <<>>))],
                [key |-> "mode", value |-> PairsField(state, "mode")],
                [key |-> "orders_total", value |-> PairsField(state, "orders_total")],
                [key |-> "alerts", value |-> Sorted(PairsGet(state, "alerts", <<>>))],
                [key |-> "invariants",
                 value |-> Sorted(PairsGet(state, "invariants", <<>>))],
                [key |-> "state_version",
                 value |-> PairsField(state, "state_version")] >>)

\* the key order of the dict summary() builds, and the sorted one
SummaryKeys ==
    << "inventory", "mode", "orders", "orders_total", "state_version", "alerts",
       "invariants", "recent_events" >>

SortedSummaryKeys ==
    << "alerts", "inventory", "invariants", "mode", "orders", "orders_total",
       "recent_events", "state_version" >>

KeyOrders == {SummaryKeys, SortedSummaryKeys}

InventoryOrders == {Items, << "doodads", "gadgets", "widgets" >>}

Occurrences(seq, x) == Cardinality({i \in DOMAIN seq : seq[i] = x})

\* the lists with the elements of seq, in every order
Orderings(seq) ==
    {p \in [DOMAIN seq -> Range(seq)] :
        \A x \in Range(seq) : Occurrences(p, x) = Occurrences(seq, x)}

\* the snapshot of AppState st with its keys and list elements in given orders
OrderedState(st, keys, items, alerts, invariants) ==
    [i \in DOMAIN keys |->
        [key |-> keys[i],
         value |-> CASE keys[i] = "inventory" ->
                          [j \in DOMAIN items |->
                              [key |-> items[j], value |-> st.inventory[items[j]]]]
                     [] keys[i] = "alerts" -> alerts
                     [] keys[i] = "invariants" -> invariants
                     [] OTHER -> Summary(st)[keys[i]]]]

Oversell(item) == [op |-> "purchase", item |-> item, quantity |-> 6, expedite |-> TRUE]

\* the target after a reset, and after two oversells in either order
SignatureAppStates ==
    {ResetBody(0),
     AfterCalls(ResetBody(0), <<Oversell("gadgets"), Oversell("doodads")>>, 1),
     AfterCalls(ResetBody(0), <<Oversell("doodads"), Oversell("gadgets")>>, 1)}

\* the snapshots of st: its keys, items and invariants in every chosen order,
\* and its alerts in every order
OrderedSnapshots(st) ==
    {OrderedState(st, keys, items, st.outstanding_alerts, invariants) :
        keys \in KeyOrders, items \in InventoryOrders,
        invariants \in Orderings(InvariantFlags(st))}
    \cup
    {OrderedState(st, SummaryKeys, Items, alerts, InvariantFlags(st)) :
        alerts \in Orderings(st.outstanding_alerts)}

\* the states state_signature is applied to: the empty state, and snapshots
OrderedStates == {<<>>} \cup UNION {OrderedSnapshots(st) : st \in SignatureAppStates}

InitSignature == InitStandalone /\ archive = EmptyArchive

\* obs.state_signature()
CallStateSignature ==
    /\ Cardinality(signed) < MaxSigned
    /\ \E state \in OrderedStates :
         signed' = signed \cup {[state |-> state,
                                 signature |-> OrderedStateSignature(state)]}
    /\ UNCHANGED <<app, clock, explorerVars, replayVars, lockVars, updates, last_call,
                   scored, fed, tape, twin>>

NextSignature == CallStateSignature

SpecSignature == InitSignature /\ [][NextSignature]_vars

\* the mapping a dict is, whatever the order of its items
DictOf(pairs) == [k \in Keys(pairs) |-> PairsValue(pairs, k)]

SameMultiset(a, b) ==
    \A x \in Range(a) \cup Range(b) : Occurrences(a, x) = Occurrences(b, x)

\* the same inventory mapping, mode, orders_total and state_version, and the
\* same alerts and invariants as multisets
SameContent(a, b) ==
    /\ DictOf(PairsGet(a, "inventory", <<>>)) = DictOf(PairsGet(b, "inventory", <<>>))
    /\ PairsField(a, "mode") = PairsField(b, "mode")
    /\ PairsField(a, "orders_total") = PairsField(b, "orders_total")
    /\ PairsField(a, "state_version") = PairsField(b, "state_version")
    /\ SameMultiset(PairsGet(a, "alerts", <<>>), PairsGet(b, "alerts", <<>>))
    /\ SameMultiset(PairsGet(a, "invariants", <<>>), PairsGet(b, "invariants", <<>>))

\* the state as the mapping the other specifications use
StateView(state) ==
    [k \in Keys(state) |->
        IF k = "inventory" THEN DictOf(PairsValue(state, k)) ELSE PairsValue(state, k)]

\* C20: two states with the same content have the same signature, whatever
\* the order of their keys and of their alerts and invariants; and the
\* signatures of two states are equal exactly when their signatures as
\* mappings (StateSignature) are.
C20_SignatureOfContentOnly ==
    \A a, b \in signed :
        /\ SameContent(a.state, b.state) => a.signature = b.signature
        /\ (a.signature = b.signature)
             <=> (StateSignature([state |-> StateView(a.state)])
                  = StateSignature([state |-> StateView(b.state)]))

C20_Witness ==
    \E a, b \in signed :
        /\ a.state # <<>>
        /\ b.state # <<>>
        /\ PairsValue(a.state, "inventory") # PairsValue(b.state, "inventory")
        /\ PairsValue(a.state, "alerts") # PairsValue(b.state, "alerts")
        /\ SameContent(a.state, b.state)
        /\ a.signature = b.signature

\* ------------------------------------------------------------------------
\* One EpsilonGreedyPolicy under any sequence of observe and select calls
\* (engine/explorer.py)
\* ------------------------------------------------------------------------
MaxObserves == 3

ToggleOnly == << ActionTemplate("toggle_mode", "POST", "/mode") >>

ResetAndToggle ==
    << ActionTemplate("reset", "POST", "/reset"),
       ActionTemplate("toggle_mode", "POST", "/mode") >>

\* the catalogs the policy selects from
PolicyCatalogs == {ToggleOnly, ResetAndToggle}

\* the values of EpsilonGreedyPolicy.epsilon, in hundredths
PolicyEpsilons == {0, 25}

\* the names observe is called with; "probe" names no template
ObservedNames == {"reset", "toggle_mode", "probe"}

\* the rewards observe is called with, in tenths
RewardDraws == {0, 3, 10}

\* EpsilonGreedyPolicy(epsilon) and a catalog; nothing else is running
InitPolicy ==
    /\ app = ResetBody(0)
    /\ clock = 1
    /\ templates \in PolicyCatalogs
    /\ epsilon \in PolicyEpsilons
    /\ action_stats = <<>>
    /\ files = EmptyDict
    /\ pc = "off"
    /\ steps = 0
    /\ episode = EmptyDict
    /\ step_idx = 0
    /\ archive = EmptyArchive
    /\ rpc = "off"
    /\ replayed = EmptyDict
    /\ rows = <<>>
    /\ returned_rows = <<>>
    /\ sent = <<>>
    /\ finished = <<>>
    /\ TargetQuiescent
    /\ NoPureCalls

\* policy.observe(action_name, reward)
CallObserve ==
    /\ Len(fed) < MaxObserves
    /\ \E name \in ObservedNames, reward \in RewardDraws :
         /\ action_stats' = Observe(action_stats, name, reward)
         /\ fed' = Append(fed, [name |-> name, reward |-> reward])
    /\ last_call' = [op |-> "observe"]
    /\ UNCHANGED <<app, clock, templates, epsilon, files, pc, steps, step_idx, episode, finished,
                   archive, replayVars, lockVars, updates, scored, signed, tape, twin>>

\* policy.select(space, rng), over every draw of the rng
CallSelect ==
    /\ IF SelectRaises(templates)
       THEN last_call' = [op |-> "select", raised |-> "IndexError"]
       ELSE \E action \in Select(templates, action_stats, epsilon) :
              last_call' = [op |-> "select", raised |-> "none", action |-> action]
    /\ UNCHANGED <<app, clock, explorerVars, replayVars, lockVars, updates, scored, fed,
                   signed, tape, twin>>

NextPolicy == CallObserve \/ CallSelect

SpecPolicy == InitPolicy /\ [][NextPolicy]_vars

\* the rewards fed for one name, in call order
RewardsFor(name) ==
    LET mine == SelectSeq(fed, LAMBDA c : c.name = name)
    IN [i \in DOMAIN mine |-> mine[i].reward]

RECURSIVE SumSeq(_)
SumSeq(seq) == IF seq = <<>> THEN 0 ELSE Head(seq) + SumSeq(Tail(seq))

\* the sum of the counts of a statistics table
TotalCount(stats) == SumSeq([i \in DOMAIN stats |-> stats[i].count])

C12_SingleTemplateAlwaysSelected ==
    Len(templates) = 1 /\ epsilon = 0 /\ fed # <<>> /\ last_call.op = "select"
        => /\ last_call.raised = "none"
           /\ last_call.action \in TemplateSamples(templates[1])

C12_Witness ==
    /\ Len(templates) = 1
    /\ epsilon = 0
    /\ Len(fed) = 2
    /\ BestName(action_stats) = "probe"
    /\ last_call.op = "select"
    /\ last_call.action.name = "toggle_mode"

\* the names of maximal running average
TiedBest(stats) ==
    {stats[i].name : i \in {k \in DOMAIN stats :
        \A j \in DOMAIN stats : ~FractionLess(stats[k].avg, stats[j].avg)}}

TemplateNames(tmpls) == {tmpls[i].name : i \in DOMAIN tmpls}

\* C13: on the exploitation branch, when several names share the highest
\* running average, each of them that has a template can be the one selected,
\* and select does not raise.
C13_TiesChosenAtRandom ==
    /\ ~SelectRaises(templates)
    /\ Cardinality(TiedBest(action_stats)) >= 2 =>
         \A name \in TiedBest(action_stats) \cap TemplateNames(templates) :
            \E action \in Exploit(templates, action_stats) : action.name = name

\* the running average recorded for a name
AvgOf(stats, name) == stats[StatsIndex(stats, name)].avg

\* what the claim requires of an instance returned on the exploitation branch
ExploitedAsSpecified(action) ==
    IF action_stats # <<>> /\ BestName(action_stats) \in TemplateNames(templates)
    THEN /\ StatsIndex(action_stats, action.name) # 0
         /\ \A j \in DOMAIN action_stats :
              ~FractionLess(AvgOf(action_stats, action.name), action_stats[j].avg)
    ELSE action \in SpaceSamples(templates)

\* C24: an instance select returns on the exploitation branch has a name of
\* maximal running average when statistics exist and the best name has a
\* template; otherwise it is a sample of some template of the catalog, and
\* every template of the catalog can be the one sampled.
C24_ExploitationPicksBest ==
    /\ \A action \in Exploit(templates, action_stats) : ExploitedAsSpecified(action)
    /\ epsilon = 0 /\ last_call.op = "select" => ExploitedAsSpecified(last_call.action)
    /\ action_stats = <<>> \/ BestName(action_stats) \notin TemplateNames(templates) =>
         \A name \in TemplateNames(templates) :
            \E action \in Exploit(templates, action_stats) : action.name = name

C24_Witness ==
    /\ epsilon = 0
    /\ templates = ResetAndToggle
    /\ last_call.op = "select"
    /\ last_call.action.name = "toggle_mode"
    /\ Len(action_stats) = 3
    /\ action_stats[1].name = "reset"
    /\ FractionLess(action_stats[1].avg, AvgOf(action_stats, "toggle_mode"))
    /\ FractionLess(AvgOf(action_stats, "probe"), AvgOf(action_stats, "toggle_mode"))

\* ------------------------------------------------------------------------
\* One BackendEnvironment: reset() and then perform(action) for any
\* ActionInstance (engine/environment.py), with the archive of the reset
\* observation
\* ------------------------------------------------------------------------
MaxPerforms == 1

\* every parameter dict the purchase sampler can return
PurchaseParameters ==
    {[item |-> i, quantity |-> q, expedite |-> e] :
        i \in ItemSet, q \in 1..6, e \in BOOLEAN}

\* requests the target answers with an error body that embeds no state
MalformedActions ==
    {ActionInstance("purchase", "POST", "/purchase",
                    [item |-> "gadgets", quantity |-> 0, expedite |-> FALSE]),
     ActionInstance("restock", "POST", "/inventory", [item |-> "gadgets"]),
     ActionInstance("toggle_mode", "POST", "/mode", [mode |-> "bogus"])}

\* the ActionInstances perform is called with
AdapterActions ==
    {ActionInstance("purchase", "POST", "/purchase", j) : j \in PurchaseParameters}
    \cup {ActionInstance("toggle_mode", "POST", "/mode", [mode |-> "maintenance"])}
    \cup MalformedActions

InitAdapter == InitStandalone /\ archive = EmptyArchive

\* env.reset(), and archive.update of its observation
EnvReset ==
    /\ last_call.op = "none"
    /\ \E fetched \in BOOLEAN, network_ms \in QuietNetworkMs :
       \E done \in {Perform(app, ResetAction, clock, network_ms, fetched)} :
         /\ app' = done.st
         /\ archive' = ArchiveUpdate(archive, done.obs)
         /\ last_call' = [op |-> "reset", raised |-> "none", fetched |-> fetched,
                          before |-> app, obs |-> done.obs]
    /\ clock' = clock + 1
    /\ UNCHANGED <<templates, epsilon, action_stats, files, pc, steps, step_idx, episode, finished,
                   replayVars, lockVars, updates, scored, fed, signed, tape, twin>>

\* env.perform(action), the action request answered; is_new_state is asked of
\* the archive that has seen the reset observation only
EnvPerform ==
    /\ last_call.op # "none"
    /\ last_call.raised = "none"
    /\ clock < MaxPerforms + 2
    /\ \E action \in AdapterActions, fetched \in BOOLEAN, network_ms \in NetworkMsDraws :
       \E done \in {Perform(app, action, clock, network_ms, fetched)} :
         /\ app' = done.st
         /\ last_call' = [op |-> "perform", raised |-> "none", fetched |-> fetched,
                          before |-> app, obs |-> done.obs,
                          is_new_state |-> IsNewState(archive, done.obs)]
    /\ clock' = clock + 1
    /\ UNCHANGED <<explorerVars, replayVars, lockVars, updates, scored, fed, signed, tape, twin>>

\* the action request of perform raises at transport level: perform raises
EnvTransportError ==
    /\ last_call.op # "none"
    /\ last_call.raised = "none"
    /\ clock < MaxPerforms + 2
    /\ last_call' = [op |-> "perform", raised |-> "ConnectionError"]
    /\ UNCHANGED <<app, clock, explorerVars, replayVars, lockVars, updates, scored, fed,
                   signed, tape, twin>>

NextAdapter == EnvReset \/ EnvPerform \/ EnvTransportError

SpecAdapter == InitAdapter /\ [][NextAdapter]_vars

\* C16: on a target just reset, perform of purchase{gadgets, 4, expedite}
\* gives an observation with inventory.gadgets = -1 and the marker
\* "inventory_negative", whose state signature is new to the archive that has
\* seen the reset observation only.
C16_ExpeditedOversell ==
    /\ last_call.op = "perform"
    /\ last_call.raised = "none"
    /\ last_call.before.state_version = 0
    /\ last_call.obs.action.path = "/purchase"
    /\ last_call.obs.action.json = [item |-> "gadgets", quantity |-> 4, expedite |-> TRUE]
    => /\ last_call.obs.state.inventory["gadgets"] = -1
       /\ "inventory_negative" \in Range(AnomalyMarkers(last_call.obs))
       /\ last_call.is_new_state

C16_Witness ==
    /\ last_call.op = "perform"
    /\ last_call.raised = "none"
    /\ last_call.before.inventory["gadgets"] = 3
    /\ last_call.obs.action.json = [item |-> "gadgets", quantity |-> 4, expedite |-> TRUE]
    /\ last_call.obs.status_code = 201
    /\ ~last_call.fetched

\* C17: the state of an observation is the snapshot of GET /state when that
\* request is answered, else the state embedded in the action's response,
\* else the empty state; and a perform whose GET /state failed has returned
\* an observation.
C17_StateFallback ==
    last_call.op \in {"reset", "perform"} /\ last_call.raised = "none" =>
        last_call.obs.state =
            IF last_call.fetched THEN Summary(app)
            ELSE IF "state" \in DOMAIN last_call.obs.response_json
            THEN last_call.obs.response_json.state
            ELSE EmptyDict

C17_Witness ==
    /\ last_call.op = "perform"
    /\ last_call.raised = "none"
    /\ ~last_call.fetched
    /\ last_call.obs.status_code = 409
    /\ last_call.obs.state # EmptyDict
    /\ last_call.obs.state = Summary(app)

\* ------------------------------------------------------------------------
\* run_episode of an Explorer built with any catalog and any epsilon
\* (engine/explorer.py: Explorer.__init__ and EpsilonGreedyPolicy.__init__
\* store what they are given)
\* ------------------------------------------------------------------------
\* the catalogs an Explorer is built with: none, one or two templates
ConfiguredCatalogs == {<<>>, ToggleOnly, ResetAndToggle}

\* the epsilons a policy is built with, in hundredths: -0.5, 0, 0.25, 1.5
ConfiguredEpsilons == {-50, 0, 25, 150}

\* Explorer(env, action_space, reward_model, policy) built and
\* run_episode(steps, seed) called; neither constructor checks its arguments.
InitConfigured ==
    /\ app = ResetBody(0)
    /\ clock = 1
    /\ templates \in ConfiguredCatalogs
    /\ epsilon \in ConfiguredEpsilons
    /\ action_stats = <<>>
    /\ files = EmptyDict
    /\ pc = "start"
    /\ steps \in 0..MaxSteps
    /\ \E seed \in Seeds :
         episode = [seed |-> seed, steps |-> <<>>, start_ts |-> clock, base_url |-> BaseUrl]
    /\ step_idx = 0
    /\ archive = EmptyArchive
    /\ rpc = "idle"
    /\ replayed = EmptyDict
    /\ rows = <<>>
    /\ returned_rows = <<>>
    /\ sent = <<>>
    /\ finished = <<>>
    /\ TargetQuiescent
    /\ NoPureCalls

\* policy.select raises in the loop of run_episode: nothing catches it
SelectError ==
    /\ pc = "loop"
    /\ step_idx < steps
    /\ SelectRaises(templates)
    /\ pc' = "select_raised"
    /\ UNCHANGED <<app, clock, templates, epsilon, action_stats, files, steps, step_idx,
                   episode, finished, archive>>
    /\ UNCHANGED <<replayVars, lockVars, pureVars>>

NextConfigured == BeginEpisode \/ Step \/ TransportError \/ SelectError

SpecConfigured == InitConfigured /\ [][NextConfigured]_vars

\* epsilon outside [0, 1], or an empty catalog
InvalidConfiguration == epsilon < 0 \/ epsilon > 100 \/ templates = <<>>

\* C14: whatever the (non-empty) catalog of the Explorer, every action name
\* with statistics in the policy is the name of a template of that catalog.
C14_StatsNamesInCatalog ==
    ~InvalidConfiguration =>
        \A i \in DOMAIN action_stats : action_stats[i].name \in TemplateNames(templates)

\* C15: with an invalid configuration run_episode does not get past its
\* start: no request is sent to the target and no step is executed.
C15_InvalidConfigRejected ==
    InvalidConfiguration =>
        /\ pc = "start"
        /\ app = ResetBody(0)
        /\ episode.steps = <<>>

\* ------------------------------------------------------------------------
\* The action catalog on its own (engine/action_space.py): ActionSpace() and
\* calls of ActionSpace.sample and of ActionTemplate.sample with any rng
\* ------------------------------------------------------------------------
InitCatalog == InitStandalone /\ archive = EmptyArchive

\* action_space.sample(rng)
CallSpaceSample ==
    /\ \E action \in SpaceSampleAnySeed(templates) :
         last_call' = [op |-> "ActionSpace.sample", action |-> action]
    /\ UNCHANGED <<app, clock, explorerVars, replayVars, lockVars, updates, scored, fed,
                   signed, tape, twin>>

\* action_space.templates[i].sample(rng)
CallTemplateSample ==
    /\ \E i \in DOMAIN templates :
       \E action \in TemplateSampleAnySeed(templates[i]) :
         last_call' = [op |-> "ActionTemplate.sample", template |-> i, action |-> action]
    /\ UNCHANGED <<app, clock, explorerVars, replayVars, lockVars, updates, scored, fed,
                   signed, tape, twin>>

NextCatalog == CallSpaceSample \/ CallTemplateSample

SpecCatalog == InitCatalog /\ [][NextCatalog]_vars

\* the declared bounds of an ActionInstance's parameters
WithinDeclaredBounds(a) ==
    CASE a.name = "reset" -> a.json = EmptyDict
      [] a.name = "restock" ->
           /\ DOMAIN a.json = {"item", "quantity"}
           /\ a.json.item \in ItemSet
           /\ a.json.quantity \in 1..5
      [] a.name = "drain_inventory" ->
           /\ DOMAIN a.json = {"item", "quantity"}
           /\ a.json.item \in ItemSet
           /\ a.json.quantity \in (-3)..(-1)
      [] a.name = "purchase" ->
           /\ DOMAIN a.json = {"item", "quantity", "expedite"}
           /\ a.json.item \in ItemSet
           /\ a.json.quantity \in 1..6
           /\ a.json.expedite \in BOOLEAN
      [] a.name = "toggle_mode" ->
           /\ DOMAIN a.json = {"mode"}
           /\ a.json.mode \in ModeSet
      [] OTHER -> FALSE

\* C21: every ActionInstance returned by ActionSpace.sample or by a template's
\* sample has the parameters of its name within the declared bounds, and a
\* template's sample has the template's own name.
C21_SamplesWithinBounds ==
    last_call.op \in {"ActionSpace.sample", "ActionTemplate.sample"} =>
        /\ WithinDeclaredBounds(last_call.action)
        /\ last_call.op = "ActionTemplate.sample" =>
             last_call.action.name = templates[last_call.template].name

C21_Witness ==
    /\ last_call.op = "ActionSpace.sample"
    /\ last_call.action.name = "drain_inventory"
    /\ last_call.action.json.quantity = -2

\* ------------------------------------------------------------------------
\* A session of run_engine.main: several run_episode calls on one Explorer,
\* seed + episode_idx each, against a target that answers quickly
\* ------------------------------------------------------------------------
MaxEpisodes == 2

\* the --steps argument of the sessions
SessionSteps == {0, 1}

InitSession == Init /\ steps \in SessionSteps

\* an archive kept from the call before
ArchiveCarriedOver == archive

\* archive = NoveltyArchive() of run_episode
NewEpisodeArchive == EmptyArchive

\* run_episode returns its episode and main calls it again: rng, archive and
\* episode are made anew, self.policy is the Explorer's
StartEpisode ==
    /\ pc = "returned"
    /\ Len(finished) + 1 < MaxEpisodes
    /\ finished' = Append(finished, [episode |-> episode, action_stats |-> action_stats])
    /\ archive' = NewEpisodeArchive
    /\ episode' = [seed |-> episode.seed + 1, steps |-> <<>>, start_ts |-> clock,
                   base_url |-> BaseUrl]
    /\ step_idx' = 0
    /\ pc' = "start"
    /\ UNCHANGED <<app, clock, templates, epsilon, action_stats, files, steps>>
    /\ UNCHANGED <<replayVars, lockVars, pureVars>>

NextSession == BeginEpisodeQuiet \/ StepQuiet \/ TransportError \/ StartEpisode

SpecSession == InitSession /\ [][NextSession]_vars

\* the archive of an episode after its reset against a quick target
ArchiveAfterReset ==
    ArchiveUpdate(EmptyArchive,
                  Perform(ResetBody(0), ResetAction, 0,
                          CHOOSE ms \in QuietNetworkMs : TRUE, TRUE).obs)

\* the archive of an episode after its reset and its first k steps
RECURSIVE ArchiveAfter(_, _)
ArchiveAfter(recorded, k) ==
    IF k = 0 THEN ArchiveAfterReset
    ELSE ArchiveUpdate(ArchiveAfter(recorded, k - 1), recorded[k].observation)

\* C23: run_episode starts with an empty archive, so every step's reward is
\* the score against the archive of its own episode only (its reset and its
\* earlier steps), whatever the earlier episodes recorded; and the policy
\* statistics a new episode starts with are those the episode before ended
\* with.
C23_FreshArchivePerEpisode ==
    /\ pc = "start" => archive = EmptyArchive
    /\ \A i \in DOMAIN episode.steps :
         episode.steps[i].reward
            = Score(episode.steps[i].observation, ArchiveAfter(episode.steps, i - 1))
    /\ pc = "start" /\ finished # <<>> =>
         action_stats = finished[Len(finished)].action_stats

C23_Witness ==
    /\ Len(finished) = 1
    /\ Len(finished[1].episode.steps) = 1
    /\ Len(episode.steps) = 1
    /\ StateSignature(episode.steps[1].observation)
         = StateSignature(finished[1].episode.steps[1].observation)
    /\ AnomalySignature(episode.steps[1].observation) = "alerts_present|inventory_negative"
    /\ IsNewState(ArchiveAfter(episode.steps, 0), episode.steps[1].observation)
    /\ episode.steps[1].reward = finished[1].episode.steps[1].reward
    /\ TotalCount(action_stats) = 4

\* ------------------------------------------------------------------------
\* Two run_episode(steps, seed) calls with the same arguments, each on its own
\* Explorer with the same policy statistics and its own target, side by side.
\* random.Random(seed) is the stream of its draws: two generators built from
\* the same seed return the same draws in the same order.  tape holds, for
\* each stream, the draws made so far (in hundredths, as rng.random()); a run
\* that reads past the end of its stream makes the next draws.
\* ------------------------------------------------------------------------
\* the draws the streams hold
TapeCells == {10, 60}

\* the draws one select can consume: rng.random(), rng.choice(templates) and
\* up to three draws of the sampler
UpcomingDraws == TapeCells \X TapeCells \X TapeCells \X TapeCells \X TapeCells

\* rng.choice(seq), by the next draw
RngChoice(seq, cell) == seq[(cell * Len(seq)) \div 100 + 1]

\* rng.randint(lo, hi), by the next draw
RngRandint(lo, hi, cell) == lo + (cell * (hi - lo + 1)) \div 100

\* draws without its first k draws
Rest(draws, k) == SubSeq(draws, k + 1, Len(draws))

\* the dict a template's sampler returns on the draws to come, and the number
\* of draws it consumes
SamplerOn(name, draws) ==
    CASE name = "reset" -> [json |-> EmptyDict, used |-> 0]
      [] name = "restock" ->
           [json |-> [item |-> RngChoice(Items, draws[1]),
                      quantity |-> RngRandint(1, 5, draws[2])],
            used |-> 2]
      [] name = "drain_inventory" ->
           [json |-> [item |-> RngChoice(Items, draws[1]),
                      quantity |-> -RngRandint(1, 3, draws[2])],
            used |-> 2]
      [] name = "purchase" ->
           [json |-> [item |-> RngChoice(Items, draws[1]),
                      quantity |-> RngRandint(1, 6, draws[2]),
                      expedite |-> draws[3] < 40],
            used |-> 3]
      [] name = "toggle_mode" ->
           [json |-> [mode |-> RngChoice(<<"normal", "maintenance", "slow">>, draws[1])],
            used |-> 1]
      [] OTHER -> [json |-> EmptyDict, used |-> 0]

\* ActionTemplate.sample(rng) on the draws to come
TemplateSampleOn(t, draws) ==
    LET sampled == SamplerOn(t.name, draws)
    IN [action |-> ActionInstance(t.name, t.method, t.path, sampled.json),
        used |-> sampled.used]

\* rng.choice(templates).sample(rng) on the draws to come
SpaceSampleOn(tmpls, draws) ==
    LET sampled == TemplateSampleOn(RngChoice(tmpls, draws[1]), Rest(draws, 1))
    IN [action |-> sampled.action, used |-> sampled.used + 1]

\* EpsilonGreedyPolicy.select(space, rng) on the draws to come: the instance
\* returned and the number of draws consumed
SelectOn(tmpls, stats, eps, draws) ==
    LET random == SpaceSampleOn(tmpls, Rest(draws, 1))
        candidates == SelectSeq(tmpls, LAMBDA t : t.name = BestName(stats))
        best == TemplateSampleOn(candidates[1], Rest(draws, 1))
    IN IF draws[1] < eps \/ stats = <<>> \/ candidates = <<>>
       THEN [action |-> random.action, used |-> random.used + 1]
       ELSE [action |-> best.action, used |-> best.used + 1]

\* a generator built without the seed: each run has a stream of its own
StreamPerRun(run) == -run.id

\* rng = random.Random(seed): the stream a run draws from
StreamOf(run) == run.seed

\* the policy statistics the two Explorers start with
TwinInitialStats == {<<>>, Observe(<<>>, "purchase", 30)}

\* the time the exchanges of the second run take beyond the handler's sleep
OtherNetworkMs == {40, 400}

\* run_episode(steps, seed) called on an Explorer whose target's clock shows
\* `now`
RunCalled(id, seed, stats, now) ==
    [id |-> id, seed |-> seed, app |-> ResetBody(0), now |-> now, stats |-> stats,
     archive |-> EmptyArchive, pos |-> 0, pc |-> "start", reset_slow |-> FALSE,
     steps |-> <<>>]

InitTwin ==
    /\ app = ResetBody(0)
    /\ clock = 1
    /\ templates = DefaultTemplates
    /\ epsilon = 25
    /\ action_stats = <<>>
    /\ files = EmptyDict
    /\ pc = "off"
    /\ steps \in 0..MaxSteps
    /\ episode = EmptyDict
    /\ step_idx = 0
    /\ archive = EmptyArchive
    /\ finished = <<>>
    /\ rpc = "off"
    /\ replayed = EmptyDict
    /\ rows = <<>>
    /\ returned_rows = <<>>
    /\ sent = <<>>
    /\ TargetQuiescent
    /\ updates = <<>>
    /\ last_call = [op |-> "none"]
    /\ scored = {}
    /\ fed = <<>>
    /\ signed = {}
    /\ \E seed \in Seeds, stats \in TwinInitialStats :
         twin = << RunCalled(1, seed, stats, 1), RunCalled(2, seed, stats, 50) >>
    /\ tape = [s \in {StreamOf(twin[r]) : r \in DOMAIN twin} |-> <<>>]

\* the network times run r can meet: any for the first run; for the second,
\* those that give its exchange the latency class of the first run's
NetworkMsOf(r) == IF r = 1 THEN NetworkMsDraws ELSE OtherNetworkMs

\* run r up to its loop: env.reset(), archive.update, policy.observe; the
\* second run follows the first
TwinBegin(r) ==
    /\ twin[r].pc = "start"
    /\ r = 2 => twin[1].pc # "start"
    /\ \E network_ms \in NetworkMsOf(r) :
       \E done \in {Perform(twin[r].app, ResetAction, twin[r].now, network_ms, TRUE)} :
         /\ r = 2 => (done.obs.latency_ms > SlowThresholdMs) = twin[1].reset_slow
         /\ twin' = [twin EXCEPT ![r] =
                [@ EXCEPT !.app = done.st,
                          !.now = @ + 1,
                          !.archive = ArchiveUpdate(@, done.obs),
                          !.stats = Observe(@, "reset", 0),
                          !.reset_slow = done.obs.latency_ms > SlowThresholdMs,
                          !.pc = LoopOrReturn(0, steps)]]
    /\ UNCHANGED <<app, clock, explorerVars, replayVars, lockVars, updates, last_call,
                   scored, fed, signed, tape>>

\* one iteration of the loop of run r: select on the run's stream, perform,
\* score, archive.update, policy.observe.  draws are the next draws of the
\* stream: those already made are read from the tape, those select consumes
\* beyond it are made now, and the positions select does not consume are not
\* drawn (they are set to draws[1]).  The second run's exchange has the
\* latency class of the first run's when it sends the same request.
TwinStep(r) ==
    /\ twin[r].pc = "loop"
    /\ Len(twin[r].steps) = Len(twin[3 - r].steps) - (r - 1)
    /\ \E run \in {twin[r]} :
       \E stream \in {tape[StreamOf(run)]} :
       \E idx \in {Len(run.steps) + 1} :
       \E draws \in UpcomingDraws :
         /\ \A k \in 1..Len(draws) :
              run.pos + k <= Len(stream) => draws[k] = stream[run.pos + k]
         /\ \E chosen \in {SelectOn(templates, run.stats, epsilon, draws)} :
            /\ \A k \in (chosen.used + 1)..Len(draws) :
                 run.pos + k > Len(stream) => draws[k] = draws[1]
            /\ \E network_ms \in NetworkMsOf(r) :
               \E done \in {Perform(run.app, chosen.action, run.now, network_ms, TRUE)} :
               \E reward \in {Score(done.obs, run.archive)} :
              /\ r = 2 /\ chosen.action = twin[1].steps[idx].action =>
                   (done.obs.latency_ms > SlowThresholdMs) = twin[1].steps[idx].slow
              /\ tape' = [tape EXCEPT ![StreamOf(run)] =
                     IF run.pos + chosen.used > Len(stream)
                     THEN stream \o SubSeq(draws, Len(stream) - run.pos + 1, chosen.used)
                     ELSE stream]
              /\ twin' = [twin EXCEPT ![r] =
                     [@ EXCEPT !.app = done.st,
                               !.now = @ + 1,
                               !.archive = ArchiveUpdate(@, done.obs),
                               !.stats = Observe(@, chosen.action.name, reward),
                               !.pos = @ + chosen.used,
                               !.steps = Append(@,
                                   [action |-> chosen.action,
                                    status_code |-> done.obs.status_code,
                                    latency_ms |-> done.obs.latency_ms,
                                    slow |-> done.obs.latency_ms > SlowThresholdMs]),
                               !.pc = LoopOrReturn(idx, steps)]]
    /\ UNCHANGED <<app, clock, explorerVars, replayVars, lockVars, updates, last_call,
                   scored, fed, signed>>

NextTwin == \E r \in {1, 2} : TwinBegin(r) \/ TwinStep(r)

SpecTwin == InitTwin /\ [][NextTwin]_vars

\* C26: two runs with the same seed and the same initial statistics, whose
\* requests are answered alike, select the same ActionInstance, parameters
\* included, at every step both have made.
C26_SameSeedSameActions ==
    \A i \in DOMAIN twin[1].steps \cap DOMAIN twin[2].steps :
        /\ twin[1].steps[i].action = twin[2].steps[i].action
        /\ twin[1].steps[i].action \in SpaceSampleAnySeed(templates)

C26_Witness ==
    /\ twin[1].pc = "returned"
    /\ twin[2].pc = "returned"
    /\ Len(twin[2].steps) = 2
    /\ twin[1].steps[1].action.name = "purchase"
    /\ twin[1].steps[1].action.json.quantity = 4
    /\ twin[1].steps[1].status_code = 409
    /\ twin[2].steps[2].action.name = "purchase"
    /\ twin[2].steps[2].action.json.expedite
    /\ twin[1].steps[2].latency_ms # twin[2].steps[2].latency_ms
    /\ twin[1].pos = 8

\* ------------------------------------------------------------------------
\* The demo target (demo_app.py) under the requests of one BackendEnvironment:
\* any action the default catalog can generate, and malformed requests
\* ------------------------------------------------------------------------
MaxRequests == 2

\* every ActionInstance the default catalog can generate
CatalogActions == SpaceSampleAnySeed(DefaultTemplates)

\* the requests sent to the target
TargetRequests == CatalogActions \cup MalformedActions

InitTarget == InitStandalone /\ archive = EmptyArchive

\* the number of accepted mutations since the last reset, after a request
\* answered with that status
MutationsAfter(action, status) ==
    IF action.path = "/reset" THEN 0
    ELSE (IF last_call.op = "none" THEN 0 ELSE last_call.mutations)
         + (IF status < 400 THEN 1 ELSE 0)

\* env.perform(action) against the target; signed holds the observations
\* taken since the last reset, each with the number of mutations the target
\* has accepted since that reset
SendRequest ==
    /\ clock <= MaxRequests
    /\ \E action \in TargetRequests, network_ms \in QuietNetworkMs :
       \E done \in {Perform(app, action, clock, network_ms, TRUE)} :
       \E n \in {MutationsAfter(action, done.obs.status_code)} :
         /\ app' = done.st
         /\ last_call' = [op |-> "perform", before |-> app, obs |-> done.obs,
                          mutations |-> n]
         /\ signed' = (IF action.path = "/reset" THEN {} ELSE signed)
                      \cup {[state |-> done.obs.state,
                             signature |-> StateSignature(done.obs),
                             mutations |-> n]}
    /\ clock' = clock + 1
    /\ UNCHANGED <<explorerVars, replayVars, lockVars, updates, scored, fed, tape, twin>>

NextTarget == SendRequest

SpecTarget == InitTarget /\ [][NextTarget]_vars

\* the request of the last call, when the catalog can generate it
ByCatalog == last_call.op = "perform" /\ last_call.obs.action \in CatalogActions

\* the last call is a purchase the target would refuse: in maintenance mode,
\* or not expedited and for more than the stock
RefusablePurchase ==
    /\ last_call.obs.action.path = "/purchase"
    /\ \/ last_call.before.mode = "maintenance"
       \/ /\ ~last_call.obs.action.json.expedite
          /\ last_call.before.inventory[last_call.obs.action.json.item]
               < last_call.obs.action.json.quantity

\* C28: every action the default catalog can generate is answered 200, 201
\* or 409 by the target, and 409 exactly when it is a purchase in maintenance
\* mode or a non-expedited purchase of more than the available quantity.
C28_CatalogNeverMalformed ==
    ByCatalog =>
        /\ last_call.obs.status_code \in {200, 201, 409}
        /\ last_call.obs.status_code = 409 <=> RefusablePurchase

C28_Witness ==
    /\ ByCatalog
    /\ last_call.obs.action.name = "purchase"
    /\ last_call.obs.action.json.expedite
    /\ last_call.obs.action.json.quantity = 3
    /\ last_call.before.mode = "maintenance"
    /\ last_call.obs.status_code = 409

C30_RejectedPurchaseFrame ==
    last_call.op = "perform" /\ last_call.obs.action.path = "/purchase" =>
        /\ last_call.obs.status_code = 409 =>
             /\ [app EXCEPT !.events = last_call.before.events] = last_call.before
             /\ Len(app.events) = Len(last_call.before.events) + 1
             /\ SubSeq(app.events, 1, Len(last_call.before.events))
                  = last_call.before.events
        /\ last_call.obs.status_code = 201 /\ ~last_call.obs.action.json.expedite =>
             app.inventory[last_call.obs.action.json.item] >= 0

C30_Witness ==
    /\ last_call.op = "perform"
    /\ last_call.obs.action.path = "/purchase"
    /\ last_call.obs.status_code = 409
    /\ last_call.before.mode = "normal"
    /\ last_call.before.inventory["doodads"] < 0
    /\ last_call.obs.action.json = [item |-> "doodads", quantity |-> 1, expedite |-> FALSE]
    /\ app.events[Len(app.events)].name = "purchase_conflict"

\* ------------------------------------------------------------------------
\* Claims about run_episode (Spec)
\* ------------------------------------------------------------------------
\* C1: the EpisodeStep.step values of an episode are 0, 1, ... in list order
\* with no gap and no repeat, and a returned episode has exactly `steps` of
\* them.
C1_StepIndicesExact ==
    /\ \A i \in DOMAIN episode.steps : episode.steps[i].step = i - 1
    /\ Len(episode.steps) <= steps
    /\ pc = "returned" => Len(episode.steps) = steps

C1_Witness ==
    /\ pc = "returned"
    /\ Len(episode.steps) = MaxSteps
    /\ episode.steps[1].observation.status_code = 409
    /\ episode.steps[2].action.name = "toggle_mode"

\* C2: a transport failure of a step's action request never aborts the
\* episode: run_episode does not end by an exception in its loop, and ends
\* with `steps` recorded steps.
C2_StepNeverAborts ==
    /\ pc # "step_raised"
    /\ pc \in {"returned", "step_raised"} => Len(episode.steps) = steps

\* C6: when run_episode returns from an episode with an anomalous step, the
\* artifact holds every step of the episode.
C6_ArtifactHoldsEveryStep ==
    pc = "returned" /\ Anomalies(episode) # <<>> =>
        /\ ArtifactName(episode) \in DOMAIN files
        /\ Len(files[ArtifactName(episode)].steps) = steps

\* C7: the episode's artifact exists if and only if one of the steps recorded
\* so far has anomaly markers.
C7_ArtifactIffAnomaly ==
    ArtifactName(episode) \in DOMAIN files <=> Anomalies(episode) # <<>>

C7_Witness ==
    /\ pc = "returned"
    /\ Len(episode.steps) = 2
    /\ AnomalyMarkers(episode.steps[1].observation) = <<>>
    /\ AnomalyMarkers(episode.steps[2].observation) = <<"slow_response">>
    /\ Len(files[ArtifactName(episode)].steps) = 2

\* C19: a step that records a 4xx or 5xx answer has anomaly markers, the
\* episode is persisted with that step in it, and run_episode goes on to its
\* next iteration (or returns, after the last one).
C19_ErrorStatusIsAnomaly ==
    [][LET n == Len(episode'.steps)
       IN n = Len(episode.steps) + 1 /\ episode'.steps[n].observation.status_code >= 400
          => /\ AnomalyMarkers(episode'.steps[n].observation) # <<>>
             /\ ArtifactName(episode') \in DOMAIN files'
             /\ files'[ArtifactName(episode')] = EpisodeToJson(episode')
             /\ pc' = IF n < steps THEN "loop" ELSE "returned"]_vars

C19_Witness ==
    /\ pc = "returned"
    /\ Len(episode.steps) = 2
    /\ episode.steps[1].observation.status_code = 409
    /\ AnomalyMarkers(episode.steps[1].observation) = <<"http_4xx">>
    /\ episode.steps[2].observation.status_code = 409
    /\ Len(files[ArtifactName(episode)].steps) = 2

\* the number of recorded steps that performed the action of that name
StepsPerforming(name) ==
    Cardinality({i \in DOMAIN episode.steps : episode.steps[i].action.name = name})

\* C22: when run_episode(steps) returns, the counts of the policy (empty
\* before the run) sum to `steps`, and each name's count is the number of
\* steps that performed that action.
C22_StatsMutatedOncePerStep ==
    pc = "returned" =>
        /\ TotalCount(action_stats) = steps
        /\ \A i \in DOMAIN action_stats :
             action_stats[i].count = StepsPerforming(action_stats[i].name)

\* the state signature of the observation env.reset() returns
ResetSignature == StateSignature([state |-> Summary(ResetBody(0))])

\* the state signatures of the first k recorded steps
StepSignatures(k) == {StateSignature(episode.steps[j].observation) : j \in 1..k}

\* the reward of the step holds the novelty bonus: it is the score of the
\* step's observation with NoveltyWeight in it, the new-anomaly bonus paid or
\* not
NoveltyBonusPaid(es) ==
    \E anomaly_bonus \in {0, AnomalyWeight} :
        es.reward = NoveltyWeight + MarkerTerm(es.observation) + anomaly_bonus
                    + (IF es.observation.latency_ms > SlowThresholdMs
                       THEN LatencyWeight ELSE 0)
                    + (IF es.observation.status_code >= 400 THEN ErrorStatusBonus ELSE 0)

\* C25: once the reset is done the archive holds exactly the state signatures
\* of the reset observation and of the steps recorded so far, and the reward
\* of each step holds the novelty bonus exactly when its state signature is
\* neither the reset's nor that of an earlier step of the episode.
C25_RewardBeforeUpdate ==
    /\ pc \notin {"start", "reset_raised"} =>
         archive.state_signatures = {ResetSignature} \cup StepSignatures(Len(episode.steps))
    /\ \A i \in DOMAIN episode.steps :
         NoveltyBonusPaid(episode.steps[i])
            <=> StateSignature(episode.steps[i].observation)
                   \notin {ResetSignature} \cup StepSignatures(i - 1)

C25_Witness ==
    /\ pc = "returned"
    /\ Len(episode.steps) = 2
    /\ NoveltyBonusPaid(episode.steps[1])
    /\ episode.steps[2].observation.status_code = 409
    /\ StateSignature(episode.steps[2].observation)
         = StateSignature(episode.steps[1].observation)
    /\ ~NoveltyBonusPaid(episode.steps[2])

\* run_episode goes on while it can: every HTTP call returns or times out
\* (timeout=5 on each), and nothing else suspends the loop
SpecFair == Spec /\ WF_vars(Next)

\* C27: run_episode(steps, seed) ends by returning an episode of `steps`
\* steps, whether its requests are answered or time out.
C27_EpisodeTerminates == <>(pc = "returned" /\ Len(episode.steps) = steps)

\* ------------------------------------------------------------------------
\* Claims about replay (SpecReplay)
\* ------------------------------------------------------------------------
\* Every row replay has produced, in the running call and the finished ones.
AllRows == UNION ({Range(rows)} \cup {Range(returned_rows[r]) : r \in DOMAIN returned_rows})

\* C4: every row of a replay against the reset target has the status code the
\* step recorded, and a replay that returns has one row per stored step.
C4_ReplayReproducesStatus ==
    /\ \A row \in AllRows : row.actual_status = row.expected_status
    /\ \A r \in DOMAIN returned_rows :
         /\ Len(returned_rows[r]) = Len(replayed.steps)
         /\ \A k \in DOMAIN returned_rows[r] :
              returned_rows[r][k].actual_status = replayed.steps[k].status_code

C4_Witness ==
    /\ Len(returned_rows) >= 1
    /\ Len(returned_rows[1]) = 2
    /\ returned_rows[1][1].actual_status = 201
    /\ returned_rows[1][2].actual_status = 409

\* C5: two replays of the same artifact, each after its own reset, have the
\* same state_signature at every step index.
C5_ReplaySignaturesAgree ==
    \A r1, r2 \in DOMAIN returned_rows :
        \A k \in DOMAIN returned_rows[r1] \cap DOMAIN returned_rows[r2] :
            returned_rows[r1][k].state_signature = returned_rows[r2][k].state_signature

C5_Witness ==
    /\ Len(returned_rows) = 2
    /\ Len(returned_rows[1]) = 2
    /\ Len(returned_rows[2]) = 2
    /\ returned_rows[1][1].state_signature # returned_rows[1][2].state_signature
    /\ replayed.steps[2].log_excerpt # <<>>

\* ------------------------------------------------------------------------
\* Episodes of an Explorer whose policy is EpsilonGreedyPolicy(epsilon), with
\* the catalog of ActionSpace() (engine/explorer.py)
\* ------------------------------------------------------------------------
\* the epsilons the policy is built with, in hundredths: 0 never explores
GreedyEpsilons == {0, 25}

\* Explorer(env, ActionSpace(), RewardModel(), EpsilonGreedyPolicy(epsilon))
\* built and run_episode(steps, seed) called; the exploring policy runs the
\* short episodes of a session
InitGreedy ==
    /\ app = ResetBody(0)
    /\ clock = 1
    /\ templates = DefaultTemplates
    /\ epsilon \in GreedyEpsilons
    /\ action_stats = <<>>
    /\ files = EmptyDict
    /\ pc = "start"
    /\ steps \in IF epsilon = 0 THEN 0..MaxSteps ELSE SessionSteps
    /\ \E seed \in Seeds :
         episode = [seed |-> seed, steps |-> <<>>, start_ts |-> clock, base_url |-> BaseUrl]
    /\ step_idx = 0
    /\ archive = EmptyArchive
    /\ rpc = "idle"
    /\ replayed = EmptyDict
    /\ rows = <<>>
    /\ returned_rows = <<>>
    /\ sent = <<>>
    /\ finished = <<>>
    /\ TargetQuiescent
    /\ NoPureCalls

\* the latencies of the network: slow answers are drawn in the episodes of
\* the policy that never explores
GreedyNetworkMs == IF epsilon = 0 THEN NetworkMsDraws ELSE QuietNetworkMs

BeginEpisodeGreedy == BeginEpisodeOver(GreedyNetworkMs)

StepGreedy == StepOver(GreedyNetworkMs)

NextGreedy == BeginEpisodeGreedy \/ StepGreedy \/ TransportError \/ StartEpisode

SpecGreedy == InitGreedy /\ [][NextGreedy]_vars

\* the names with an entry in action_stats
StatsNames(stats) == {stats[i].name : i \in DOMAIN stats}

\* the steps the Explorer has executed, in this call of run_episode and in
\* the calls before it
ExecutedSteps ==
    {episode.steps[k] : k \in DOMAIN episode.steps}
    \cup UNION {{finished[e].episode.steps[k] : k \in DOMAIN finished[e].episode.steps} :
                  e \in DOMAIN finished}

\* C31: when statistics exist and a template carries the best name, every
\* instance the exploitation branch of select can return has a name with
\* recorded statistics; and with epsilon = 0 and the default catalog every
\* step of every episode is the reset action.
C31_ExploitationOnlySeenNames ==
    /\ action_stats # <<>> /\ BestName(action_stats) \in TemplateNames(templates) =>
         \A action \in Exploit(templates, action_stats) :
            action.name \in StatsNames(action_stats)
    /\ epsilon = 0 =>
         /\ \A es \in ExecutedSteps : es.action = ResetAction
         /\ pc \notin {"start", "reset_raised"} \/ finished # <<>> =>
              StatsNames(action_stats) = {"reset"}

C31_Witness ==
    /\ epsilon = 0
    /\ Len(finished) = 1
    /\ Len(finished[1].episode.steps) = 2
    /\ pc = "returned"
    /\ Len(episode.steps) = 2
    /\ \A es \in ExecutedSteps : es.action.name = "reset"
    /\ \E es \in ExecutedSteps : es.reward > 0
    /\ action_stats[1].count = 6
    /\ action_stats[1].avg.num > 0
====
